---- MODULE Spec2Model ----
(***************************************************************************)
(* Model of the sACN (E1.31) lighting transport of lightshowpi-neo,        *)
(* py/networking_sacn.py: the wire codec (E131Packet / parse_e131_packet), *)
(* and one SACNNetworking instance in the server or the client role with   *)
(* its data-plane and control-plane sockets.                               *)
(*                                                                         *)
(* Representation.                                                         *)
(*  - A datagram is a sequence of bytes (0..255).  Python offset i is      *)
(*    index i+1 here; At and Slice do the shift.                           *)
(*  - A brightness value is a rational <<num, den>>: the orchestrator's    *)
(*    frames are on the grid k/Scale, receive() produces dmx/255.          *)
(*  - Python's None is the record None; a returned frame, a parsed packet  *)
(*    and a control message are records tagged by t.                       *)
(***************************************************************************)
EXTENDS Integers, Sequences, FiniteSets, TLC

\* ------------------------------------------------------------------ bounds
\* Channels per frame the orchestrator hands to broadcast().
MaxChannels == 3
\* Largest configured universe_boundary (channels per universe; 512 in
\* production, scaled so that a frame of MaxChannels splits).
MaxBoundary == 2
\* broadcast() calls per behaviour of Spec.
MaxBroadcasts == 2
\* broadcast() calls per behaviour of SpecSeq: enough to wrap the counter.
MaxSeqCalls == 258
\* Resolution of the brightness grid: a frame value is k/Scale.
Scale == 1000

\* ------------------------------------------------------------- byte helpers
Min(a, b) == IF a < b THEN a ELSE b

Max(a, b) == IF a > b THEN a ELSE b

Zeros(n) == [i \in 1..n |-> 0]

\* data[i] of Python
At(data, i) == data[i + 1]

\* data[a:b] of Python (0 <= a <= b)
Slice(data, a, b) == SubSeq(data, a + 1, Min(b, Len(data)))

\* struct.pack('!H', x)
PackU16(x) == << (x \div 256) % 256, x % 256 >>

\* struct.unpack('!H', b)[0]
UnpackU16(b) == b[1] * 256 + b[2]

None == [t |-> "None"]

\* b'ASC-E1.17\x00\x00\x00'
AcnId == << 65, 83, 67, 45, 69, 49, 46, 49, 55, 0, 0, 0 >>

\* 'LightShowPi', null-padded to the 64 bytes of the source-name field
SourceName == << 76, 105, 103, 104, 116, 83, 104, 111, 119, 80, 105 >> \o Zeros(53)

\* The sender's component identifier: 16 bytes no receiver here reads.
Cid == Zeros(16)

\* flags (0x7) and 12-bit length of a PDU
FlagsLength(n) == PackU16(28672 + n)

\* E131Packet(name, universe, data, sequence).packet_data: root layer
\* (38 bytes), framing layer (77 bytes), DMP layer (11 bytes with the start
\* code) and the channel payload.
E131Packet(name, universe, data, sequence) ==
    LET n == Len(data) IN
       << 0, 16 >> \o << 0, 0 >> \o AcnId
    \o FlagsLength(110 + n) \o << 0, 0, 0, 4 >> \o Cid
    \o FlagsLength(88 + n) \o << 0, 0, 0, 2 >> \o name
    \o << 100 >> \o << 0, 0 >> \o << sequence >> \o << 0 >> \o PackU16(universe)
    \o FlagsLength(11 + n) \o << 2, 161 >> \o << 0, 0 >> \o << 0, 1 >>
    \o PackU16(n + 1) \o << 0 >> \o data

\* while len(dmx_data) > 1 and dmx_data[-1] == 0: dmx_data.pop()
RECURSIVE StripTrailingZeros(_)
StripTrailingZeros(d) ==
    IF Len(d) > 1 /\ d[Len(d)] = 0
    THEN StripTrailingZeros(SubSeq(d, 1, Len(d) - 1))
    ELSE d

\* A faulty parser: the universe field read low byte first.
parse_e131_packet_le(data) ==
    IF Len(data) < 126 THEN None
    ELSE IF UnpackU16(Slice(data, 0, 2)) # 16 THEN None
    ELSE IF Slice(data, 4, 16) # AcnId THEN None
    ELSE IF At(data, 125) # 0 THEN None
    ELSE [t |-> "packet",
          universe |-> At(data, 114) * 256 + At(data, 113),
          sequence |-> At(data, 111),
          dmx_data |-> StripTrailingZeros(Slice(data, 126, Len(data)))]

\* A faulty parser: any DMX start code accepted.
parse_e131_packet_anystart(data) ==
    IF Len(data) < 126 THEN None
    ELSE IF UnpackU16(Slice(data, 0, 2)) # 16 THEN None
    ELSE IF Slice(data, 4, 16) # AcnId THEN None
    ELSE [t |-> "packet",
          universe |-> UnpackU16(Slice(data, 113, 115)),
          sequence |-> At(data, 111),
          dmx_data |-> StripTrailingZeros(Slice(data, 126, Len(data)))]

\* SACNNetworking.parse_e131_packet
parse_e131_packet(data) ==
    IF Len(data) < 126 THEN None
    ELSE IF UnpackU16(Slice(data, 0, 2)) # 16 THEN None
    ELSE IF Slice(data, 4, 16) # AcnId THEN None
    ELSE IF At(data, 125) # 0 THEN None
    ELSE [t |-> "packet",
          universe |-> UnpackU16(Slice(data, 113, 115)),
          sequence |-> At(data, 111),
          dmx_data |-> StripTrailingZeros(Slice(data, 126, Len(data)))]

\* ------------------------------------------------------------------- state
VARIABLES
    \* the SACNNetworking instance
    cfg,              \* cm.network.* and cm.hardware.gpio_len, read in __init__
    ready,            \* self.ready
    sequence_num,     \* self.sequence_num
    last_sequence,    \* self.last_sequence: dict universe -> sequence
    network_stream,   \* self.network_stream: "open", "closed" (close() called,
                      \* reference still held) or "None"
    control_stream,   \* self.control_stream, likewise
    \* what the last call did
    op,               \* name of the last method called
    arg,              \* its argument
    ret,              \* its return value
    raised,           \* whether an exception left it
    sent,             \* sendto calls of the data-plane socket during it
    ctl_sent,         \* sendto calls of the control-plane socket during it
    flagged,          \* whether it logged "Out-of-order packet"
    rx,               \* the datagram recvfrom handed to it
    parsed,           \* receive()'s local variable parsed
    last_seq,         \* receive()'s local variable last_seq
    src,              \* how the sender built rx
    calls,            \* broadcast() calls so far that found the stream open
    good,             \* per universe, the sequence of the last intact datagram
    \* the codec applied to one input
    c_pc, c_in, c_dgram, c_out,
    \* a broadcast() and a close_connection() running in two threads
    bpc, univ_idx, dmx_data, cpc,
    \* what setup() leaves behind and where the process is
    target_address,   \* self.target_address, None until setup_server() sets it
    membership,       \* the multicast group the client's data socket joined
    exited,           \* sys.exit(1) was called
    rpc,              \* "recvfrom" while receive() waits in recvfrom
    \* the channel override table applied to one frame
    a_pc, a_in, a_out,
    \* the band-energy engine
    fft_request,      \* the arguments initialize() is called with
    fft_instance,     \* the engine it leaves, None before and after a failure
    \* the ButtonManagerService instance
    lightshow_manager,     \* self.lightshow_manager: None or the manager, with
                           \* its fields process and state
    enabled,               \* self.enabled
    repeat_mode,           \* self.repeat_mode
    audio_on,              \* self.audio_on
    audio_cooldown_until,  \* self.audio_cooldown_until
    last_action,           \* self.last_action
    last_action_time,      \* self.last_action_time
    button_press_start,    \* self.button_press_start, in insertion order
    audio_timeout,         \* self.audio_timeout
    cooldown_duration,     \* self.cooldown_duration
    audio_shutoff_time,    \* self.audio_shutoff_time
    lm_calls,              \* the methods of the manager the last call called
    time,                  \* time.time(), in seconds
    \* the physical button manager, py/buttonmanager.py
    API_ENABLED,           \* API_ENABLED
    BUTTON_MODE,           \* BUTTON_MODE
    pb_repeat_mode,        \* its global repeat_mode
    audio_cooldown,        \* audio_cooldown
    audio_turnoff,         \* audio_turnoff
    outlet,                \* outlet.is_lit, the audio relay
    play_now,              \* play_now in the state file
    pb_calls,              \* the functions the last toggleRepeat() called
    pb_api,                \* the API calls it made: endpoint and success
    \* the LightshowManager instance and the threads that call it
    lm_process,            \* self.process: 0 for None, else the subprocess
    lm_state,              \* self.state
    lm_lock,               \* self.lock: 0 when free, else the thread holding it
    lm_alive,              \* the subprocesses launched and still alive
    lm_launched,           \* subprocess.Popen calls so far
    lm_threads,            \* per thread, where it is in which method
    \* the SchedulerService instance
    schedule_table,        \* the rows of table schedule in the database
    lastrowid,             \* the largest id the table has given out
    scheduler_jobs,        \* the ids of the jobs self.scheduler holds
    \* the module py/gpio_adapter.py
    chip_handle,           \* _chip_handle
    pin_mode,              \* _pin_mode
    pwm_pins,              \* _pwm_pins: BCM pin -> range
    expanders,             \* the keys of _expanders
    lgpio_calls            \* the lgpio functions the last call called

inst == << cfg, ready, sequence_num, last_sequence, network_stream, control_stream >>

obs == << op, arg, ret, raised, sent, ctl_sent, flagged, rx, parsed, last_seq, src, calls, good >>

codec == << c_pc, c_in, c_dgram, c_out >>

threads == << bpc, univ_idx, dmx_data, cpc >>

host == << target_address, membership, exited, rpc >>

\* What a call of a component other than SACNNetworking leaves alone in obs.
obs_rest == << sent, ctl_sent, flagged, rx, parsed, last_seq, src, calls, good >>

sacn == << inst, obs_rest, codec, threads, host >>

overrides == << a_pc, a_in, a_out >>

engine == << fft_request, fft_instance >>

service == << lightshow_manager, enabled, repeat_mode, audio_on, audio_cooldown_until,
             last_action, last_action_time, button_press_start, audio_timeout,
             cooldown_duration, audio_shutoff_time, lm_calls, time >>

physical == << API_ENABLED, BUTTON_MODE, pb_repeat_mode, audio_cooldown, audio_turnoff,
              outlet, play_now, pb_calls, pb_api >>

lightshow == << lm_process, lm_state, lm_lock, lm_alive, lm_launched, lm_threads >>

\* The components of the API backend beside the button service.
scheduler == << schedule_table, lastrowid, scheduler_jobs >>

adapter == << chip_handle, pin_mode, pwm_pins, expanders, lgpio_calls >>

further == << lightshow, scheduler, adapter >>

\* The components beside SACNNetworking.
others == << overrides, engine, service, physical, further >>

\* What the calls of one component leave alone.
beside_overrides == << sacn, engine, service, physical, further >>

beside_engine == << sacn, overrides, service, physical, further >>

beside_service == << sacn, overrides, engine, physical, further >>

beside_physical == << sacn, overrides, engine, further >>

beside_lightshow == << sacn, overrides, engine, service, physical, scheduler, adapter >>

\* The jobs of the scheduler call the lightshow manager.
beside_scheduler == << sacn, overrides, engine, service, physical, adapter >>

beside_adapter == << sacn, overrides, engine, service, physical, lightshow, scheduler >>

vars == << inst, obs, codec, threads, host, others >>

\* --------------------------------------------------------- codec under test
\* Sample values of the fields of a datagram.
UniverseSamples == { 0, 1, 256, 65535 }

SequenceSamples == { 0, 42, 255 }

ByteSamples == { 0, 7, 255 }

Payloads(n) == UNION { [1..k -> ByteSamples] : k \in 1..n }

NoDamage == [k |-> "none", a |-> 0, v |-> 0]

Cut(n) == [k |-> "cut", a |-> n, v |-> 0]

Set(a, v) == [k |-> "set", a |-> a, v |-> v]

\* What may happen to a frame before it reaches the parser: truncation to its
\* first a bytes, or byte a overwritten with v.
Damages ==
    { Cut(0), Cut(10), Cut(125), Cut(126),
      Set(0, 1), Set(1, 17), Set(4, 66), Set(15, 1), Set(125, 1), Set(125, 221),
      Set(2, 1), Set(117, 0) }

\* The damages that break one of the four fields the parser checks.
Breaking ==
    { Cut(0), Cut(10), Cut(125),
      Set(0, 1), Set(1, 17), Set(4, 66), Set(15, 1), Set(125, 1), Set(125, 221) }

Damage(d, dmg) ==
    CASE dmg.k = "none" -> d
      [] dmg.k = "cut"  -> SubSeq(d, 1, Min(dmg.a, Len(d)))
      [] dmg.k = "set"  -> [d EXCEPT ![dmg.a + 1] = dmg.v]

\* The bytes on the wire for a description of a datagram.
Wire(desc) ==
    Damage(E131Packet(SourceName, desc.universe, desc.data, desc.sequence), desc.damage)

CodecInputs ==
    { [universe |-> u, sequence |-> s, data |-> p, damage |-> NoDamage] :
        u \in UniverseSamples, s \in SequenceSamples, p \in Payloads(MaxChannels) }
    \cup
    { [universe |-> 1, sequence |-> 42, data |-> p, damage |-> g] :
        p \in { << 0 >>, << 7, 0 >> }, g \in Damages }

CodecIdle ==
    /\ c_pc = "idle"
    /\ c_in = [universe |-> 0, sequence |-> 0, data |-> << 0 >>, damage |-> NoDamage]
    /\ c_dgram = << >>
    /\ c_out = None

\* packet = E131Packet(...); the datagram travels
CodecEncode ==
    /\ c_pc = "input"
    /\ c_dgram' = Wire(c_in)
    /\ c_pc' = "wire"
    /\ UNCHANGED << c_in, c_out, inst, obs, threads, host, others >>

\* parsed = sacn.parse_e131_packet(packet.packet_data)
CodecParse ==
    /\ c_pc = "wire"
    /\ c_out' = parse_e131_packet(c_dgram)
    /\ c_pc' = "parsed"
    /\ UNCHANGED << c_in, c_dgram, inst, obs, threads, host, others >>

\* ------------------------------------------------------------ configuration
Role == { "sacn_server", "sacn_client" }

\* sacn_address after split(','): the empty string is the one empty entry.
NoAddress == << "" >>

AddressLists == { NoAddress, << "10.0.0.2", "", " 10.0.0.3" >> }

\* addr.strip()
Strip(addr) == IF addr = " 10.0.0.3" THEN "10.0.0.3" ELSE addr

\* A configuration: cm.network.* and cm.hardware.gpio_len.
Config(role, start, boundary, gpio_len, address) ==
    [networking |-> role, universe_start |-> start, universe_boundary |-> boundary,
     num_channels |-> gpio_len, sacn_address |-> address, sacn_port |-> 5568,
     sacn_control_port |-> 8889, enable_multicast |-> FALSE]

\* The configuration c with enable_multicast set.
Multicast(c) == [c EXCEPT !.enable_multicast = TRUE]

\* f"239.255.{(universe >> 8) & 0xFF}.{universe & 0xFF}"
MulticastGroup(universe) ==
    [t |-> "ip", a |-> << 239, 255, (universe \div 256) % 256, universe % 256 >>]

\* An address given by name: a configured entry or '<broadcast>'.
Host(name) == [t |-> "host", host |-> name]

\* A faulty priority: a configured address wins over multicast.
TargetAddress_unicastfirst(c) ==
    IF c.sacn_address # NoAddress THEN Host(Strip(c.sacn_address[1]))
    ELSE IF c.enable_multicast THEN MulticastGroup(c.universe_start)
    ELSE Host("<broadcast>")

\* setup_server(): Determine target address
TargetAddress(c) ==
    IF c.enable_multicast THEN MulticastGroup(c.universe_start)
    ELSE IF c.sacn_address # NoAddress THEN Host(Strip(c.sacn_address[1]))
    ELSE Host("<broadcast>")

\* setup_client(): the group joined with IP_ADD_MEMBERSHIP, if any
Membership(c) ==
    IF c.enable_multicast THEN MulticastGroup(c.universe_start) ELSE None

\* The servers of the model (gpio_len plays no part in a server's transport).
ServerConfigs ==
    { Config("sacn_server", u, b, MaxChannels, a) :
        u \in { 1, 255 }, b \in 1..MaxBoundary, a \in AddressLists }

\* The clients of the model (a client never reads sacn_address).
ClientConfigs ==
    { Config("sacn_client", u, b, n, NoAddress) :
        u \in { 1, 255 }, b \in 1..MaxBoundary, n \in 1..MaxChannels }

\* ------------------------------------------------------------------- frames
\* Brightness values of the grid, as rationals <<num, den>>: the frames are
\* the windows of the repeating pattern 1.0, 0.0, 0.5, just under 1.0.
Levels == << << Scale, Scale >>, << 0, Scale >>, << Scale \div 2, Scale >>,
             << Scale - 1, Scale >> >>

Frames(n) ==
    { [i \in 1..k |-> Levels[((i + r - 1) % Len(Levels)) + 1]] :
        k \in 0..n, r \in 0..(Len(Levels) - 1) }

\* The channels of a DMX universe, the default of universe_boundary.
DmxSize == 512

\* Brightness values in and out of [0.0, 1.0]: -1.0, just above 1.0, 0.5,
\* 1.0 and just below 0.0.
WideLevels == << << 0 - Scale, Scale >>, << Scale + 1, Scale >>, << Scale \div 2, Scale >>,
                 << Scale, Scale >>, << 0 - 1, Scale >> >>

\* Frames of few channels, of one full universe and of one channel more.
WideFrames ==
    { [i \in 1..k |-> WideLevels[((i + r - 1) % Len(WideLevels)) + 1]] :
        k \in { 0, 1, DmxSize, DmxSize + 1 }, r \in 0..(Len(WideLevels) - 1) }

\* int(min(max(b, 0.0), 1.0) * 255)
ToDmx(b) ==
    LET lo == IF b[1] < 0 THEN << 0, 1 >> ELSE b
        hi == IF lo[1] > lo[2] THEN << 1, 1 >> ELSE lo
    IN  (hi[1] * 255) \div hi[2]

\* dmx_data = [int(min(max(b, 0.0), 1.0) * 255) for b in brightness_array]
FrameDmx(frame) == [i \in 1..Len(frame) |-> ToDmx(frame[i])]

\* dmx / 255.0
ToBrightness(dmx) == << dmx, 255 >>

\* (num_channels + self.universe_boundary - 1) // self.universe_boundary
NumUniverses(num_channels, boundary) == (num_channels + boundary - 1) \div boundary

\* A faulty loop body: every universe of a call stamped universe_start.
UniversePacket_same(c, dmx, idx, seq) ==
    LET start_idx == idx * c.universe_boundary
        end_idx == Min(start_idx + c.universe_boundary, Len(dmx))
        universe_data == Slice(dmx, start_idx, end_idx)
    IN  E131Packet(SourceName, c.universe_start,
                   IF universe_data = << >> THEN << 0 >> ELSE universe_data, seq)

\* The body of broadcast()'s loop up to the sendto: the packet of universe
\* number idx (from 0) of the frame whose DMX values are dmx.
UniversePacket(c, dmx, idx, seq) ==
    LET start_idx == idx * c.universe_boundary
        end_idx == Min(start_idx + c.universe_boundary, Len(dmx))
        universe_data == Slice(dmx, start_idx, end_idx)
    IN  E131Packet(SourceName, c.universe_start + idx,
                   IF universe_data = << >> THEN << 0 >> ELSE universe_data, seq)

\* dict.get(key, default)
Get(d, key, default) == IF key \in DOMAIN d THEN d[key] ELSE default

\* d[key] = value
Put(d, key, value) ==
    [x \in DOMAIN d \cup { key } |-> IF x = key THEN value ELSE d[x]]

EmptyDict == [x \in {} |-> 0]

NoSource == [good |-> FALSE, universe |-> 0, sequence |-> 0, frame |-> << >>, idx |-> 0]

\* ------------------------------------------------------------- construction
\* __init__ and setup(): both sockets are created; the control socket may
\* fail, which leaves control_stream None.
Constructed(c, ctl_ok) ==
    /\ cfg = c
    /\ ready = TRUE
    /\ sequence_num = 0
    /\ last_sequence = EmptyDict
    /\ network_stream = "open"
    /\ control_stream = IF ctl_ok THEN "open" ELSE "None"
    /\ target_address = IF c.networking = "sacn_server" THEN TargetAddress(c) ELSE None
    /\ membership = IF c.networking = "sacn_client" THEN Membership(c) ELSE None
    /\ exited = FALSE
    /\ rpc = "idle"

Quiet ==
    /\ op = "init"
    /\ arg = << >>
    /\ ret = None
    /\ raised = FALSE
    /\ sent = << >>
    /\ ctl_sent = << >>
    /\ flagged = FALSE
    /\ rx = << >>
    /\ parsed = None
    /\ last_seq = -1
    /\ src = NoSource
    /\ calls = 0
    /\ good = EmptyDict

\* No frame has been handed to the override table.
OverridesIdle ==
    /\ a_pc = "idle"
    /\ a_in = None
    /\ a_out = None

\* No engine has been asked for.
EngineIdle ==
    /\ fft_request = None
    /\ fft_instance = None

\* The instant a behaviour starts at.
Epoch == 100

\* ButtonManagerService.__init__ of a configuration that leaves the button
\* manager disabled, with no lightshow manager given.
ServiceIdle ==
    /\ lightshow_manager = None
    /\ enabled = FALSE
    /\ repeat_mode = FALSE
    /\ audio_on = FALSE
    /\ audio_cooldown_until = 0
    /\ last_action = None
    /\ last_action_time = None
    /\ button_press_start = << >>
    /\ audio_timeout = 300
    /\ cooldown_duration = 5
    /\ audio_shutoff_time = None
    /\ lm_calls = << >>
    /\ time = Epoch

\* py/buttonmanager.py as imported, before init_api().
PhysicalIdle ==
    /\ API_ENABLED = FALSE
    /\ BUTTON_MODE = "auto"
    /\ pb_repeat_mode = FALSE
    /\ audio_cooldown = 0
    /\ audio_turnoff = 0
    /\ outlet = FALSE
    /\ play_now = 0
    /\ pb_calls = << >>
    /\ pb_api = << >>

\* Threads that call the lightshow manager.
Threads == { 1, 2 }

\* A thread that is in no method of the manager.
Outside == [pc |-> "idle", op |-> "none", running |-> FALSE]

\* LightshowManager.__init__: no subprocess, IDLE, the lock free.
ManagerIdle ==
    /\ lm_process = 0
    /\ lm_state = "idle"
    /\ lm_lock = 0
    /\ lm_alive = { }
    /\ lm_launched = 0
    /\ lm_threads = [t \in Threads |-> Outside]

\* SchedulerService.__init__ on an empty table: no job.
SchedulerIdle ==
    /\ schedule_table = { }
    /\ lastrowid = 0
    /\ scheduler_jobs = { }

\* py/gpio_adapter.py as imported
AdapterIdle ==
    /\ chip_handle = None
    /\ pin_mode = "wiringpi"
    /\ pwm_pins = EmptyDict
    /\ expanders = { }
    /\ lgpio_calls = << >>

FurtherIdle ==
    /\ ManagerIdle
    /\ SchedulerIdle
    /\ AdapterIdle

OthersIdle ==
    /\ OverridesIdle
    /\ EngineIdle
    /\ ServiceIdle
    /\ PhysicalIdle
    /\ FurtherIdle

ThreadsIdle ==
    /\ bpc = "idle"
    /\ univ_idx = 0
    /\ dmx_data = << >>
    /\ cpc = "idle"

\* What a call that neither sends nor receives leaves observable.
Returned(name, value) ==
    /\ op' = name
    /\ arg' = << >>
    /\ ret' = value
    /\ raised' = FALSE
    /\ sent' = << >>
    /\ ctl_sent' = << >>
    /\ flagged' = FALSE
    /\ rx' = << >>
    /\ parsed' = None
    /\ last_seq' = -1
    /\ src' = NoSource

\* --------------------------------------------------------------- data plane
\* A faulty guard: a call on a released socket reference goes on.
StreamIsNone_never(stream) == FALSE

\* if self.network_stream is None / if self.control_stream is None
StreamIsNone(stream) == stream = "None"

\* A faulty counter: no wrap at 256.
NextSequence_nowrap(seq) == seq + 1

\* self.sequence_num = (self.sequence_num + 1) % 256
NextSequence(seq) == (seq + 1) % 256

\* A faulty loop: the first failed send ends it.
Attempted_abort(n, fails) ==
    IF fails = {} THEN n ELSE (CHOOSE k \in fails : \A j \in fails : k <= j) + 1

\* The passes broadcast()'s loop over n universes makes when the sends of
\* the universes in fails raise socket.error: the try is inside the loop, so
\* all of them.
Attempted(n, fails) == n

\* broadcast(brightness_array) as one step.  fails: the universes (numbered
\* from 0) whose sendto raises socket.error; limit: the calls a behaviour
\* may make.
Broadcast(frame, fails, limit) ==
    /\ cfg.networking = "sacn_server" \/ network_stream = "None"
    /\ IF StreamIsNone(network_stream)
       THEN /\ fails = {}
            /\ Returned("broadcast", None)
            /\ UNCHANGED << inst, calls, good >>
       ELSE /\ calls < limit
            /\ LET dmx == FrameDmx(frame)
                   n == NumUniverses(Len(dmx), cfg.universe_boundary)
               IN  /\ fails \subseteq 0..(n - 1)
                   /\ sent' = [k \in 1..Attempted(n, fails) |->
                                 [data |-> UniversePacket(cfg, dmx, k - 1, sequence_num),
                                  to |-> target_address,
                                  port |-> cfg.sacn_port,
                                  ok |-> (k - 1) \notin fails]]
            /\ sequence_num' = NextSequence(sequence_num)
            /\ calls' = calls + 1
            /\ op' = "broadcast"
            /\ arg' = frame
            /\ ret' = None
            /\ raised' = FALSE
            /\ ctl_sent' = << >>
            /\ flagged' = FALSE
            /\ rx' = << >>
            /\ parsed' = None
            /\ last_seq' = -1
            /\ src' = NoSource
            /\ UNCHANGED << cfg, ready, last_sequence, network_stream, control_stream, good >>
    /\ UNCHANGED << codec, host, others, threads >>

\* A faulty test: every lower sequence is out of order, wraparound or not.
OutOfOrder_nowrap(last, sequence) == last >= 0 /\ sequence < last

\* if last_seq >= 0: if sequence < last_seq and last_seq < 250: log
OutOfOrder(last, sequence) == last >= 0 /\ sequence < last /\ last < 250

\* A faulty update: the sequence of a flagged packet is not recorded.
Recorded_inorder(d, universe, sequence) ==
    IF OutOfOrder(Get(d, universe, -1), sequence) THEN d ELSE Put(d, universe, sequence)

\* self.last_sequence[universe] = sequence
Recorded(d, universe, sequence) == Put(d, universe, sequence)

\* A faulty fit: a short frame is not padded.
Fitted_nopad(b, n) == IF Len(b) > n THEN SubSeq(b, 1, n) ELSE b

\* A faulty fit: a long frame is not truncated.
Fitted_notrunc(b, n) ==
    IF Len(b) < n THEN b \o [i \in 1..(n - Len(b)) |-> << 0, 1 >>] ELSE b

\* Pad or truncate to match expected channel count
Fitted(b, n) ==
    IF Len(b) < n THEN b \o [i \in 1..(n - Len(b)) |-> << 0, 1 >>]
    ELSE IF Len(b) > n THEN SubSeq(b, 1, n)
    ELSE b

\* receive() when recvfrom returns the datagram d, which its sender built as
\* meta says.
Receive(d, meta) ==
    /\ cfg.networking = "sacn_client" \/ network_stream = "None"
    /\ IF network_stream = "None"
       THEN \* AttributeError on None.recvfrom, caught by except Exception
            /\ Returned("receive", None)
            /\ UNCHANGED << last_sequence, good >>
       ELSE LET p == parse_e131_packet(d) IN
            /\ op' = "receive"
            /\ arg' = << >>
            /\ raised' = FALSE
            /\ sent' = << >>
            /\ ctl_sent' = << >>
            /\ rx' = d
            /\ src' = meta
            /\ parsed' = p
            /\ good' = IF meta.good THEN Put(good, meta.universe, meta.sequence) ELSE good
            /\ IF p = None
               THEN /\ ret' = None
                    /\ flagged' = FALSE
                    /\ last_seq' = -1
                    /\ UNCHANGED last_sequence
               ELSE /\ last_seq' = Get(last_sequence, p.universe, -1)
                    /\ flagged' = OutOfOrder(Get(last_sequence, p.universe, -1), p.sequence)
                    /\ last_sequence' = Recorded(last_sequence, p.universe, p.sequence)
                    /\ ret' = [t |-> "frame",
                               v |-> Fitted([i \in 1..Len(p.dmx_data) |->
                                               ToBrightness(p.dmx_data[i])],
                                            cfg.num_channels)]
    /\ rpc' = "idle"
    /\ UNCHANGED << cfg, ready, sequence_num, network_stream, control_stream, calls,
                    codec, threads, target_address, membership, exited, others >>

\* receive() when recvfrom raises socket.timeout: setup_client() sets no
\* timeout on the data socket, so this takes a default timeout set for the
\* whole process (socket.setdefaulttimeout).
ReceiveTimeout ==
    /\ cfg.networking = "sacn_client"
    /\ network_stream = "open"
    /\ Returned("receive", None)
    /\ rpc' = "idle"
    /\ UNCHANGED << inst, calls, good, codec, threads, target_address, membership, exited, others >>

\* receive() called on an open socket: self.network_stream.recvfrom(1024) on
\* the socket as setup_client() left it, with no timeout set, waits for a
\* datagram.
ReceiveEnter ==
    /\ cfg.networking = "sacn_client"
    /\ network_stream = "open"
    /\ rpc = "idle"
    /\ rpc' = "recvfrom"
    /\ UNCHANGED << inst, obs, codec, threads, target_address, membership, exited, others >>

\* ------------------------------------------------------------ control plane
\* json.dumps(message).encode('utf-8')
JsonDumps(message) == [json |-> TRUE, value |-> message]

OverrideMessage(off, on, inv, now) ==
    [t |-> "dict", type |-> "overrides", always_off |-> off, always_on |-> on,
     inverted |-> inv, timestamp |-> now]

\* The addresses broadcast_overrides() sends to, in order.
RECURSIVE Targets(_)
Targets(addrs) ==
    IF addrs = << >> THEN << >>
    ELSE (IF Strip(Head(addrs)) # "" THEN << Strip(Head(addrs)) >> ELSE << >>)
         \o Targets(Tail(addrs))

ControlTargets(c) ==
    IF c.sacn_address # NoAddress THEN Targets(c.sacn_address) ELSE << "<broadcast>" >>

\* broadcast_overrides(always_off, always_on, inverted); bad: the position
\* (from 1) of the sendto that raises, 0 when none does; the except clause
\* around the whole loop ends the call there.  ctl_sent lists the sendto
\* calls made, the one that raised (ok FALSE) last.
BroadcastOverrides(off, on, inv, now, bad) ==
    /\ cfg.networking = "sacn_server" \/ control_stream = "None"
    /\ IF StreamIsNone(control_stream)
       THEN /\ bad = 0
            /\ Returned("broadcast_overrides", None)
       ELSE LET to == ControlTargets(cfg)
                data == JsonDumps(OverrideMessage(off, on, inv, now))
                tried == IF bad = 0 THEN Len(to) ELSE bad
            IN  /\ bad \in 0..Len(to)
                /\ ctl_sent' = [k \in 1..tried |->
                                  [to |-> to[k], port |-> cfg.sacn_control_port,
                                   data |-> data, ok |-> k # bad]]
                /\ op' = "broadcast_overrides"
                /\ arg' = << off, on, inv >>
                /\ ret' = None
                /\ raised' = FALSE
                /\ sent' = << >>
                /\ flagged' = FALSE
                /\ rx' = << >>
                /\ parsed' = None
                /\ last_seq' = -1
                /\ src' = NoSource
    /\ UNCHANGED << inst, calls, good, codec, host, others, threads >>

\* What recvfrom of the control socket may hand over.
ControlDatagrams ==
    { JsonDumps(OverrideMessage(<< 1 >>, << >>, << 2 >>, 100)),
      JsonDumps([t |-> "dict", always_off |-> << 1 >>]),
      JsonDumps([t |-> "list", items |-> << "type" >>]),
      [json |-> FALSE, value |-> None] }

\* 'type' in message: a key of a dict, an element of a list
Contains(message, key) ==
    IF message.t = "dict" THEN key \in DOMAIN message
    ELSE \E i \in 1..Len(message.items) : message.items[i] = key

\* A faulty validation: whatever decodes is returned.
ControlResult_untyped(d) == IF d.json THEN d.value ELSE None

\* What receive_control_message() returns for the datagram d: json.loads
\* raises JSONDecodeError on what is not JSON; a message without 'type' is
\* dropped; message['type'] raises TypeError on what is not a dict, caught by
\* except Exception.
ControlResult(d) ==
    IF ~d.json THEN None
    ELSE IF ~Contains(d.value, "type") THEN None
    ELSE IF d.value.t # "dict" THEN None
    ELSE d.value

\* receive_control_message() when recvfrom returns the datagram d
ReceiveControl(d) ==
    /\ cfg.networking = "sacn_client" \/ control_stream = "None"
    /\ IF StreamIsNone(control_stream)
       THEN /\ d = [json |-> FALSE, value |-> None]
            /\ Returned("receive_control_message", None)
       ELSE /\ op' = "receive_control_message"
            /\ arg' = << d >>
            /\ ret' = ControlResult(d)
            /\ raised' = FALSE
            /\ sent' = << >>
            /\ ctl_sent' = << >>
            /\ flagged' = FALSE
            /\ rx' = << >>
            /\ parsed' = None
            /\ last_seq' = -1
            /\ src' = NoSource
    /\ UNCHANGED << inst, calls, good, codec, host, others, threads >>

\* receive_control_message() when recvfrom raises socket.timeout
ReceiveControlTimeout ==
    /\ cfg.networking = "sacn_client"
    /\ control_stream = "open"
    /\ Returned("receive_control_message", None)
    /\ UNCHANGED << inst, calls, good, codec, host, others, threads >>

\* ---------------------------------------------------------------- lifecycle
\* close_connection() as one step
CloseConnection ==
    /\ ready' = FALSE
    /\ network_stream' = "None"
    /\ control_stream' = "None"
    /\ Returned("close_connection", None)
    /\ UNCHANGED << cfg, sequence_num, last_sequence, calls, good, codec, host, others, threads >>

\* setup() called again: fresh sockets; the control socket may fail
Setup(ctl_ok) ==
    /\ ready' = TRUE
    /\ network_stream' = "open"
    /\ control_stream' = IF ctl_ok THEN "open" ELSE "None"
    /\ target_address' = IF cfg.networking = "sacn_server" THEN TargetAddress(cfg)
                          ELSE target_address
    /\ membership' = IF cfg.networking = "sacn_client" THEN Membership(cfg) ELSE membership
    /\ Returned("setup", None)
    /\ UNCHANGED << cfg, sequence_num, last_sequence, calls, good, codec, threads,
                    exited, rpc, others >>

\* __init__ just before it calls setup()
Unwired(c) ==
    /\ cfg = c
    /\ ready = FALSE
    /\ sequence_num = 0
    /\ last_sequence = EmptyDict
    /\ network_stream = "None"
    /\ control_stream = "None"
    /\ target_address = None
    /\ membership = None
    /\ exited = FALSE
    /\ rpc = "idle"

\* A faulty handler: no failure ends the process.
Exits_never(data_ok, ctl_ok) == FALSE

\* Whether setup() ends in sys.exit(1): the except clause of the data-plane
\* try does, the one of the control-plane try does not.
Exits(data_ok, ctl_ok) == ~data_ok

\* setup() when creating or binding the data socket succeeds or not
\* (data_ok) and the control socket likewise (ctl_ok).  The server fixes its
\* target address before the first try; the client closes the socket whose
\* bind or join failed.
SetupCall(data_ok, ctl_ok) ==
    /\ ~exited
    /\ ~data_ok => ctl_ok
    /\ target_address' = IF cfg.networking = "sacn_server" THEN TargetAddress(cfg)
                          ELSE target_address
    /\ IF Exits(data_ok, ctl_ok)
       THEN /\ exited' = TRUE
            /\ network_stream' = IF cfg.networking = "sacn_client" THEN "closed"
                                  ELSE network_stream
            /\ UNCHANGED << ready, control_stream, membership >>
       ELSE /\ ready' = TRUE
            /\ network_stream' = "open"
            /\ control_stream' = IF ctl_ok THEN "open" ELSE "None"
            /\ membership' = IF cfg.networking = "sacn_client" THEN Membership(cfg)
                              ELSE membership
            /\ UNCHANGED exited
    /\ op' = "setup"
    /\ arg' = << data_ok, ctl_ok >>
    /\ ret' = None
    /\ raised' = FALSE
    /\ sent' = << >>
    /\ ctl_sent' = << >>
    /\ flagged' = FALSE
    /\ rx' = << >>
    /\ parsed' = None
    /\ last_seq' = -1
    /\ src' = NoSource
    /\ UNCHANGED << cfg, sequence_num, last_sequence, calls, good, codec, threads, rpc, others >>

\* ------------------------------------------- broadcast and close in threads
\* broadcast() entered by the tick thread: the check of the stream and the
\* conversion of the frame.
BroadcastEnter(frame, limit) ==
    /\ bpc = "idle"
    /\ calls < limit
    /\ IF StreamIsNone(network_stream)
       THEN /\ Returned("broadcast", None)
            /\ UNCHANGED << threads, calls >>
       ELSE /\ bpc' = "loop"
            /\ univ_idx' = 0
            /\ dmx_data' = FrameDmx(frame)
            /\ calls' = calls + 1
            /\ op' = "broadcast"
            /\ arg' = frame
            /\ sent' = << >>
            /\ UNCHANGED << cpc, ret, raised, ctl_sent, flagged, rx, parsed, last_seq, src >>
    /\ UNCHANGED << inst, good, codec, host, others >>

\* One pass of the loop: the packet is built and self.network_stream.sendto
\* is evaluated.  On a reference already None the attribute lookup raises
\* AttributeError, which except socket.error does not catch; on a closed
\* socket sendto raises socket.error (EBADF), which it does; on an open one
\* the send succeeds unless fail.
BroadcastSend(fail) ==
    /\ bpc = "loop"
    /\ univ_idx < NumUniverses(Len(dmx_data), cfg.universe_boundary)
    /\ IF network_stream = "None"
       THEN /\ fail = FALSE
            /\ bpc' = "raised"
            /\ raised' = TRUE
            /\ UNCHANGED << univ_idx, sent >>
       ELSE /\ network_stream = "closed" => fail = FALSE
            /\ sent' = Append(sent,
                              [data |-> UniversePacket(cfg, dmx_data, univ_idx, sequence_num),
                               to |-> target_address,
                               port |-> cfg.sacn_port,
                               ok |-> network_stream = "open" /\ ~fail])
            /\ univ_idx' = univ_idx + 1
            /\ UNCHANGED << bpc, raised >>
    /\ UNCHANGED << inst, op, arg, ret, ctl_sent, flagged, rx, parsed, last_seq, src, calls,
                    good, codec, host, others, dmx_data, cpc >>

\* After the loop: the counter advances and broadcast() returns.
BroadcastReturn ==
    /\ bpc = "loop"
    /\ univ_idx = NumUniverses(Len(dmx_data), cfg.universe_boundary)
    /\ sequence_num' = NextSequence(sequence_num)
    /\ bpc' = "idle"
    /\ UNCHANGED << cfg, ready, last_sequence, network_stream, control_stream, obs, codec, host, others,
                    univ_idx, dmx_data, cpc >>

\* close_connection() entered by another thread: self.ready = False
CloseEnter ==
    /\ cpc = "idle"
    /\ ready' = FALSE
    /\ cpc' = "net"
    /\ UNCHANGED << cfg, sequence_num, last_sequence, network_stream, control_stream, obs,
                    codec, host, others, bpc, univ_idx, dmx_data >>

\* if self.network_stream: self.network_stream.close()
CloseNetwork ==
    /\ cpc = "net"
    /\ IF network_stream = "None"
       THEN cpc' = "ctl" /\ UNCHANGED network_stream
       ELSE cpc' = "net_none" /\ network_stream' = "closed"
    /\ UNCHANGED << cfg, ready, sequence_num, last_sequence, control_stream, obs, codec, host, others,
                    bpc, univ_idx, dmx_data >>

\* self.network_stream = None
ReleaseNetwork ==
    /\ cpc = "net_none"
    /\ network_stream' = "None"
    /\ cpc' = "ctl"
    /\ UNCHANGED << cfg, ready, sequence_num, last_sequence, control_stream, obs, codec, host, others,
                    bpc, univ_idx, dmx_data >>

\* if self.control_stream: self.control_stream.close()
CloseControl ==
    /\ cpc = "ctl"
    /\ IF control_stream = "None"
       THEN cpc' = "done" /\ UNCHANGED control_stream
       ELSE cpc' = "ctl_none" /\ control_stream' = "closed"
    /\ UNCHANGED << cfg, ready, sequence_num, last_sequence, network_stream, obs, codec, host, others,
                    bpc, univ_idx, dmx_data >>

\* self.control_stream = None
ReleaseControl ==
    /\ cpc = "ctl_none"
    /\ control_stream' = "None"
    /\ cpc' = "done"
    /\ UNCHANGED << cfg, ready, sequence_num, last_sequence, network_stream, obs, codec, host, others,
                    bpc, univ_idx, dmx_data >>

\* ------------------------------------------------------------------- inputs
\* Sequence numbers of the datagrams a client is handed.
ClientSequences == { 0, 5, 200, 254, 255 }

ClientPayloads == { << 0 >>, << 255, 0 >>, [i \in 1..(MaxChannels + 1) |-> 7] }

Datagram(u, s, p, g) == [universe |-> u, sequence |-> s, data |-> p, damage |-> g]

\* Datagrams from any sender on the network, for the client's universe and
\* the next one; one of them in every damaged form.
RawInputs(c) ==
    { Datagram(u, s, p, NoDamage) :
        u \in { c.universe_start, c.universe_start + 1 }, s \in ClientSequences,
        p \in ClientPayloads }
    \cup
    { Datagram(c.universe_start, 5, << 255, 0 >>, g) : g \in Damages }

\* A few of them.
FewInputs(c) ==
    { Datagram(c.universe_start, s, << 255, 0 >>, g) :
        s \in { 5, 200 }, g \in { NoDamage, Cut(10) } }

RawMeta(desc) ==
    [good |-> desc.damage \notin Breaking, universe |-> desc.universe,
     sequence |-> desc.sequence, frame |-> << >>, idx |-> 0]

\* Sequence numbers of the peer server's broadcasts.
PeerSequences == { 0 }

\* receive() of a datagram some sender put on the wire
ReceiveRaw(desc) == Receive(Wire(desc), RawMeta(desc))

\* receive() of packet number idx of the broadcast(frame) of a server that
\* has the client's universe_start and universe_boundary
ReceivePeer(frame, seq, idx) ==
    /\ network_stream = "open"
    /\ idx < NumUniverses(Len(frame), cfg.universe_boundary)
    /\ Receive(UniversePacket(cfg, FrameDmx(frame), idx, seq),
               [good |-> TRUE, universe |-> cfg.universe_start + idx,
                sequence |-> seq, frame |-> frame, idx |-> idx])

OverrideLists == { << >>, << 1, 2 >> }

\* time.time()
Clock == { 100 }

\* ----------------------------------------------------------- specifications
\* One instance through its life: a server that broadcasts frames and
\* overrides, or a client that receives, closed and set up again.
Init ==
    /\ \E c \in ServerConfigs \cup { Config("sacn_client", 1, 1, MaxChannels, NoAddress) },
          ctl_ok \in BOOLEAN : Constructed(c, ctl_ok)
    /\ Quiet
    /\ CodecIdle
    /\ ThreadsIdle
    /\ OthersIdle

Next ==
    \/ \E f \in Frames(MaxChannels), fails \in SUBSET (0..(MaxChannels - 1)) :
          Broadcast(f, fails, MaxBroadcasts)
    \/ \E off \in OverrideLists, on \in OverrideLists, now \in Clock, bad \in 0..2 :
          BroadcastOverrides(off, on, << 1 >>, now, bad)
    \/ \E desc \in FewInputs(cfg) : ReceiveRaw(desc)
    \/ ReceiveTimeout
    \/ \E d \in ControlDatagrams : ReceiveControl(d)
    \/ ReceiveControlTimeout
    \/ CloseConnection
    \/ \E ctl_ok \in BOOLEAN : Setup(ctl_ok)

Spec == Init /\ [][Next]_vars

\* The codec alone, applied to one datagram per behaviour.
InitCodec ==
    /\ Constructed(Config("sacn_client", 1, 1, MaxChannels, NoAddress), TRUE)
    /\ Quiet
    /\ ThreadsIdle
    /\ OthersIdle
    /\ c_pc = "input"
    /\ c_in \in CodecInputs
    /\ c_dgram = << >>
    /\ c_out = None

NextCodec == CodecEncode \/ CodecParse

SpecCodec == InitCodec /\ [][NextCodec]_vars

\* A server that broadcasts until its sequence counter has wrapped.
SeqFrames == { [i \in 1..k |-> << Scale, Scale >>] : k \in 0..MaxChannels }

InitSeq ==
    /\ \E b \in 1..MaxBoundary :
          Constructed(Config("sacn_server", 1, b, MaxChannels, NoAddress), TRUE)
    /\ Quiet
    /\ CodecIdle
    /\ ThreadsIdle
    /\ OthersIdle

NextSeq ==
    \E f \in SeqFrames, fails \in SUBSET (0..(MaxChannels - 1)) :
        Broadcast(f, fails, MaxSeqCalls)

SpecSeq == InitSeq /\ [][NextSeq]_vars

\* A client handed datagrams of any sender, intact and damaged.
InitClient ==
    /\ \E u \in { 1, 255 } :
          Constructed(Config("sacn_client", u, 1, MaxChannels, NoAddress), TRUE)
    /\ Quiet
    /\ CodecIdle
    /\ ThreadsIdle
    /\ OthersIdle

NextClient ==
    \/ \E desc \in RawInputs(cfg) : ReceiveRaw(desc)
    \/ ReceiveTimeout

SpecClient == InitClient /\ [][NextClient]_vars

\* A client handed the packets of a server with its universe_start and
\* universe_boundary.
InitLink ==
    /\ \E b \in 1..MaxBoundary, n \in 1..MaxChannels :
          Constructed(Config("sacn_client", 1, b, n, NoAddress), TRUE)
    /\ Quiet
    /\ CodecIdle
    /\ ThreadsIdle
    /\ OthersIdle

NextLink ==
    \E f \in Frames(MaxChannels), s \in PeerSequences, k \in 0..(MaxChannels - 1) :
        ReceivePeer(f, s, k)

SpecLink == InitLink /\ [][NextLink]_vars

\* A server whose tick thread broadcasts while another thread closes the
\* connection.
InitConc ==
    /\ \E b \in 1..MaxBoundary, ctl_ok \in BOOLEAN :
          Constructed(Config("sacn_server", 1, b, MaxChannels, NoAddress), ctl_ok)
    /\ Quiet
    /\ CodecIdle
    /\ ThreadsIdle
    /\ OthersIdle

NextConc ==
    \/ \E f \in Frames(MaxChannels) : BroadcastEnter(f, MaxBroadcasts)
    \/ \E fail \in BOOLEAN : BroadcastSend(fail)
    \/ BroadcastReturn
    \/ CloseEnter
    \/ CloseNetwork
    \/ ReleaseNetwork
    \/ CloseControl
    \/ ReleaseControl

SpecConc == InitConc /\ [][NextConc]_vars

\* An instance from its constructor's call of setup() on: either socket may
\* fail; a server then broadcasts to its target address, a client receives.
SetupAddressLists == AddressLists \cup { << " 10.0.0.3", "10.0.0.2" >> }

SetupConfigs ==
    { Config("sacn_server", u, b, MaxChannels, a) :
        u \in { 1, 255 }, b \in 1..MaxBoundary, a \in SetupAddressLists }
    \cup
    { Config("sacn_client", u, 1, MaxChannels, NoAddress) : u \in { 1, 255 } }

InitSetup ==
    /\ \E c \in SetupConfigs : Unwired(c) \/ Unwired(Multicast(c))
    /\ Quiet
    /\ CodecIdle
    /\ ThreadsIdle
    /\ OthersIdle

\* setup() runs first, and again only on a closed instance; after
\* sys.exit(1) nothing runs.
NextSetup ==
    \/ ~ready /\ \E data_ok \in BOOLEAN, ctl_ok \in BOOLEAN : SetupCall(data_ok, ctl_ok)
    \/ /\ op # "init"
       /\ ~exited
       /\ \/ \E f \in Frames(MaxChannels) : Broadcast(f, {}, MaxBroadcasts)
          \/ \E desc \in FewInputs(cfg) : ReceiveRaw(desc)
          \/ CloseConnection

SpecSetup == InitSetup /\ [][NextSetup]_vars

\* A client's tick loop: receive() and receive_control_message() in turn, one
\* thread; a datagram may arrive while receive() waits.
InitBlock ==
    /\ \E u \in { 1, 255 }, ctl_ok \in BOOLEAN :
          Constructed(Config("sacn_client", u, 1, MaxChannels, NoAddress), ctl_ok)
    /\ Quiet
    /\ CodecIdle
    /\ ThreadsIdle
    /\ OthersIdle

\* The steps the loop takes by itself.
TickLoop ==
    \/ ReceiveEnter
    \/ rpc = "idle" /\ \E d \in ControlDatagrams : ReceiveControl(d)
    \/ rpc = "idle" /\ ReceiveControlTimeout

\* The step that takes a sender.
Arrival == rpc = "recvfrom" /\ \E desc \in FewInputs(cfg) : ReceiveRaw(desc)

NextBlock == TickLoop \/ Arrival

\* The loop runs whenever it can; no sender is obliged to send.
FairBlock == InitBlock /\ [][NextBlock]_vars /\ WF_vars(TickLoop)

\* A server with a universe_boundary of a full DMX universe or of one channel
\* more, broadcasting frames up to one channel more than a universe.
InitWide ==
    /\ \E b \in { DmxSize, DmxSize + 1 } :
          Constructed(Config("sacn_server", 1, b, MaxChannels, NoAddress), TRUE)
    /\ Quiet
    /\ CodecIdle
    /\ ThreadsIdle
    /\ OthersIdle

NextWide ==
    \E f \in WideFrames, fails \in { {}, { 0 } } : Broadcast(f, fails, MaxBroadcasts)

SpecWide == InitWide /\ [][NextWide]_vars

\* =================================================================== claims
\* out is cb with its trailing zero bytes removed down to a length of 1.
TrimmedTo(cb, out) ==
    /\ Len(out) >= 1
    /\ Len(out) <= Len(cb)
    /\ out = SubSeq(cb, 1, Len(out))
    /\ \A i \in (Len(out) + 1)..Len(cb) : cb[i] = 0
    /\ Len(out) = 1 \/ out[Len(out)] # 0

\* C1: parsing the frame that encodes (universe, sequence, channel_bytes)
\* returns that universe, that sequence and channel_bytes with its trailing
\* zeros removed down to a minimum length of 1.
C1_RoundTrip ==
    (c_pc = "parsed" /\ c_in.damage = NoDamage) =>
        /\ c_out # None
        /\ c_out.universe = c_in.universe
        /\ c_out.sequence = c_in.sequence
        /\ TrimmedTo(c_in.data, c_out.dmx_data)

C1_Witness ==
    /\ c_pc = "parsed"
    /\ c_in = Datagram(65535, 255, << 7, 0, 0 >>, NoDamage)
    /\ c_out = [t |-> "packet", universe |-> 65535, sequence |-> 255, dmx_data |-> << 7 >>]

\* The least m with m * b >= n.
Ceil(n, b) == CHOOSE m \in 0..n : m * b >= n /\ (m = 0 \/ (m - 1) * b < n)

UniverseOf(packet) == 256 * packet[114] + packet[115]

PayloadOf(packet) == SubSeq(packet, 127, Len(packet))

\* C2: broadcast() of N channels with universe_boundary B makes ceil(N/B)
\* sendto calls; the k-th (from 0) carries universe universe_start + k and
\* the channels [k*B, min((k+1)*B, N)) in their order.
C2_UniverseSplit ==
    (op = "broadcast" /\ network_stream = "open") =>
        LET N == Len(arg)
            B == cfg.universe_boundary
        IN  /\ Len(sent) = Ceil(N, B)
            /\ \A k \in 0..(Len(sent) - 1) :
                  /\ UniverseOf(sent[k + 1].data) = cfg.universe_start + k
                  /\ PayloadOf(sent[k + 1].data) =
                        [j \in 1..(Min((k + 1) * B, N) - k * B) |-> ToDmx(arg[k * B + j])]

\* A frame of 3 channels over universes of 2: universes 255 and 256 with 2
\* and 1 channels (600 over 512 in production: 512 and 88).
C2_Witness ==
    /\ op = "broadcast"
    /\ network_stream = "open"
    /\ cfg.universe_boundary = 2
    /\ cfg.universe_start = 255
    /\ Len(arg) = 3
    /\ Len(sent) = 2
    /\ sent[1].data[114] = 0 /\ sent[1].data[115] = 255
    /\ sent[2].data[114] = 1 /\ sent[2].data[115] = 0
    /\ PayloadOf(sent[1].data) = << 255, 0 >>
    /\ PayloadOf(sent[2].data) = << 127 >>

\* C3: all packets of a broadcast() carry the counter's value before the
\* call, whatever the number of universes and the failed sends; the counter
\* stays in 0..255 and equals the number of calls modulo 256.
C3_SequencePerCall ==
    /\ sequence_num \in 0..255
    /\ sequence_num = calls % 256
    /\ op = "broadcast" =>
          \A k \in 1..Len(sent) : sent[k].data[112] = (sequence_num + 255) % 256

\* The 256th call: two universes, one send failed, stamped 255; the counter
\* has wrapped to 0.
C3_Witness ==
    /\ calls = 256
    /\ sequence_num = 0
    /\ Len(sent) = 2
    /\ ~sent[1].ok
    /\ sent[1].data[112] = 255 /\ sent[2].data[112] = 255

\* The universe and the sequence the sender of the datagram just received
\* put into it.
SentUniverse == src'.universe

SentSequence == src'.sequence

\* A pair (last, new) of sequence numbers at the 255 -> 0 boundary, read as
\* widely as the words allow: last in the top of the range and new wrapped
\* to below it.
AtWraparound(last, new) == last >= 250 /\ new < 250

\* C4 as claimed: a packet is flagged exactly when its sequence is lower than
\* the last one recorded for its universe and the pair is not at the
\* 255 -> 0 wraparound boundary.
C4_FlaggedUnlessWrapPair ==
    [][(op' = "receive" /\ src'.good) =>
          (flagged' <=> /\ SentUniverse \in DOMAIN good
                        /\ SentSequence < good[SentUniverse]
                        /\ ~AtWraparound(good[SentUniverse], SentSequence))]_vars

\* C4 as amended: a packet is flagged exactly when its sequence is lower than
\* the last one recorded for its universe and that last one is below 250;
\* a datagram that does not decode is never flagged.
C4_FlaggedBelow250 ==
    [][op' = "receive" =>
          (flagged' <=> /\ src'.good
                        /\ SentUniverse \in DOMAIN good
                        /\ SentSequence < good[SentUniverse]
                        /\ good[SentUniverse] < 250)]_vars

\* 5 arriving after 200 is flagged, and still returned as a frame.
C4_Witness ==
    /\ op = "receive"
    /\ last_seq = 200
    /\ src.sequence = 5
    /\ flagged
    /\ ret.t = "frame"

\* C5: last_sequence[U] is the sequence of the most recent datagram for U
\* that decoded, flagged ones included and returned as frames; nothing else
\* changes it.
C5_LastWriterWins ==
    /\ last_sequence = good
    /\ flagged => ret.t = "frame"

\* A flagged packet of the second universe was recorded; the first
\* universe keeps its own last sequence.
C5_Witness ==
    /\ op = "receive"
    /\ flagged
    /\ DOMAIN last_sequence = { cfg.universe_start, cfg.universe_start + 1 }
    /\ src.universe = cfg.universe_start + 1
    /\ last_sequence[cfg.universe_start + 1] = 5
    /\ last_sequence[cfg.universe_start] = 255

\* The four conditions under which a byte string is no lighting packet.
Malformed(d) ==
    \/ Len(d) < 126
    \/ << d[1], d[2] >> # << 0, 16 >>
    \/ SubSeq(d, 5, 16) # AcnId
    \/ d[126] # 0

\* C6: the parser returns None exactly for the byte strings that are too
\* short or have a wrong preamble, identifier or start code, and receive()
\* returns None whenever it did.
C6_RejectsMalformed ==
    op = "receive" =>
        /\ parsed = None <=> Malformed(rx)
        /\ parsed = None <=> ~src.good
        /\ parsed = None => ret = None
        /\ ~raised

\* A 10-byte datagram was dropped.
C6_Witness ==
    /\ op = "receive"
    /\ Len(rx) = 10
    /\ parsed = None
    /\ ret = None

\* C7 as claimed: the channel data of an accepted datagram has at least one
\* element and ends in a non-zero byte unless its length is 1.
C7_ChannelDataKept ==
    (c_pc = "parsed" /\ c_out # None) =>
        /\ Len(c_out.dmx_data) >= 1
        /\ Len(c_out.dmx_data) = 1 \/ c_out.dmx_data[Len(c_out.dmx_data)] # 0

\* |a - b| < 1/255 on rationals
Within255th(a, b) ==
    LET diff == a[1] * b[2] - b[1] * a[2]
    IN  255 * (IF diff < 0 THEN 0 - diff ELSE diff) < a[2] * b[2]

\* C8: a frame of N <= universe_boundary values in [0, 1], broadcast by a
\* server with the client's universe_start and received by a client with
\* num_channels = N, comes back with N elements, each within 1/255 of the
\* input, 0.0 and 1.0 exactly.
C8_EndToEnd ==
    (/\ op = "receive"
     /\ src.frame # << >>
     /\ Len(src.frame) <= cfg.universe_boundary
     /\ Len(src.frame) = cfg.num_channels) =>
        /\ ret.t = "frame"
        /\ Len(ret.v) = Len(src.frame)
        /\ \A i \in 1..Len(src.frame) :
              /\ Within255th(src.frame[i], ret.v[i])
              /\ src.frame[i][1] = 0 => ret.v[i][1] = 0
              /\ src.frame[i][1] = src.frame[i][2] => ret.v[i][1] = ret.v[i][2]

\* [1.0, 0.0] came back as [255/255, 0.0]: the zero stripped on the wire
\* was padded back.
C8_Witness ==
    /\ op = "receive"
    /\ cfg.num_channels = 2
    /\ cfg.universe_boundary = 2
    /\ src.frame = << << Scale, Scale >>, << 0, Scale >> >>
    /\ parsed.dmx_data = << 255 >>
    /\ ret = [t |-> "frame", v |-> << << 255, 255 >>, << 0, 1 >> >>]

\* C9 as claimed: a broadcast() that close_connection() overtakes does not
\* raise.
C9_BroadcastNeverRaises == bpc # "raised"

Closed == network_stream = "None" /\ control_stream = "None" /\ ~ready

\* C10: on a closed instance broadcast(), broadcast_overrides(), receive()
\* and receive_control_message() send nothing, return None, raise nothing
\* and leave the counter alone, and a second close_connection() changes
\* nothing; the instance stays closed until setup().
C10_ClosedIsInert ==
    [][(Closed /\ op' # "setup") =>
          /\ sent' = << >>
          /\ ctl_sent' = << >>
          /\ ret' = None
          /\ ~raised'
          /\ inst' = inst]_vars

\* A server that had broadcast was closed, and broadcast() was called again.
C10_Witness ==
    /\ Closed
    /\ op = "broadcast"
    /\ calls = MaxBroadcasts
    /\ sequence_num = MaxBroadcasts

\* C11 as claimed: the frame returned for packet k of a multi-universe
\* broadcast holds the channels that packet carries, [k*B, min((k+1)*B, N)),
\* at their original indices, so that applying it leaves the channels of
\* the other universes alone.
C11_OwnChannelsOnly ==
    (/\ op = "receive"
     /\ src.frame # << >>
     /\ Len(src.frame) = cfg.num_channels) =>
        LET B == cfg.universe_boundary
            k == src.idx
        IN  /\ ret.t = "frame"
            /\ \A j \in (k * B + 1)..Min((k + 1) * B, Len(src.frame)) :
                  Within255th(src.frame[j], ret.v[j])

\* C12 as claimed: with multicast enabled every data packet goes to the
\* group 239.255.<high byte>.<low byte> of the universe it carries, and a
\* multicast client has joined the group of its universe_start.
C12_GroupPerUniverse ==
    /\ (op = "broadcast" /\ cfg.enable_multicast) =>
          \A k \in 1..Len(sent) :
              LET U == UniverseOf(sent[k].data)
              IN  sent[k].to = [t |-> "ip", a |-> << 239, 255, U \div 256, U % 256 >>]
    /\ (cfg.networking = "sacn_client" /\ cfg.enable_multicast /\ network_stream = "open") =>
          membership = [t |-> "ip", a |-> << 239, 255, cfg.universe_start \div 256,
                                            cfg.universe_start % 256 >>]

\* C17 as claimed: when either socket of setup() fails, in either role, the
\* process exits and the transport is not ready.
C17_AnyFailureExits ==
    (op = "setup" /\ (~arg[1] \/ ~arg[2])) => (exited /\ ~ready)

\* C17 as amended: a failure of the data-plane socket ends the process before
\* the transport is ready, and nothing runs after it; a failure of the
\* control-plane socket alone leaves control_stream None and the transport
\* ready, in either role.
C17_DataFailureExits ==
    /\ exited => ~ready
    /\ op = "setup" =>
          /\ ~arg[1] => exited
          /\ arg[1] =>
                /\ ~exited
                /\ ready
                /\ network_stream = "open"
                /\ control_stream = IF arg[2] THEN "open" ELSE "None"

\* A client whose data socket failed to bind: the process is gone, never
\* ready.
C17_Witness ==
    /\ op = "setup"
    /\ cfg.networking = "sacn_client"
    /\ arg = << FALSE, TRUE >>
    /\ exited
    /\ ~ready
    /\ network_stream = "closed"

\* C18: a server's data packets go to the multicast group of universe_start
\* when enable_multicast is set, whatever sacn_address holds; otherwise to the
\* trimmed first entry of a non-empty sacn_address; otherwise to
\* '<broadcast>'.
C18_DestinationPriority ==
    (cfg.networking = "sacn_server" /\ op # "init") =>
        /\ cfg.enable_multicast =>
              target_address = [t |-> "ip", a |-> << 239, 255, cfg.universe_start \div 256,
                                                       cfg.universe_start % 256 >>]
        /\ (~cfg.enable_multicast /\ cfg.sacn_address # << "" >>) =>
              /\ target_address.t = "host"
              /\ target_address.host \in { "10.0.0.2", "10.0.0.3" }
              /\ target_address.host = Strip(cfg.sacn_address[1])
        /\ (~cfg.enable_multicast /\ cfg.sacn_address = << "" >>) =>
              target_address = [t |-> "host", host |-> "<broadcast>"]
        /\ op = "broadcast" =>
              \A k \in 1..Len(sent) : sent[k].to = target_address /\ sent[k].port = 5568

\* Multicast wins over a configured address list, and a packet went out to
\* the group of universe 255.
C18_Witness ==
    /\ op = "broadcast"
    /\ cfg.enable_multicast
    /\ cfg.sacn_address = << " 10.0.0.3", "10.0.0.2" >>
    /\ cfg.universe_start = 255
    /\ Len(sent) >= 1
    /\ sent[1].to = [t |-> "ip", a |-> << 239, 255, 0, 255 >>]

\* C13 as claimed: a receive() that waits in recvfrom returns, whether or
\* not a datagram arrives, so that the loop goes on to poll the control
\* socket.
C13_ReceiveReturns == (rpc = "recvfrom") ~> (rpc = "idle")

\* C14 as claimed: every packet of a broadcast() carries at least 1 and at
\* most 512 channel bytes, each in 0..255, 0 for an input below 0.0 and 255
\* for one above 1.0, whatever the frame length and universe_boundary.
C14_WellFormedPackets ==
    op = "broadcast" =>
        \A k \in 1..Len(sent) :
            LET p == PayloadOf(sent[k].data)
                first == (k - 1) * cfg.universe_boundary
            IN  /\ Len(p) >= 1
                /\ Len(p) <= 512
                /\ \A i \in 1..Len(p) :
                      /\ p[i] \in 0..255
                      /\ arg[first + i][1] < 0 => p[i] = 0
                      /\ arg[first + i][1] > arg[first + i][2] => p[i] = 255

\* C15: a frame returned by receive() has num_channels elements; element i
\* is byte i of the datagram's channel data divided by 255 where the datagram
\* has such a byte and 0.0 where it has not, so every element is in
\* [0.0, 1.0] and channel data beyond num_channels is dropped.
C15_FrameShape ==
    (op = "receive" /\ ret # None) =>
        /\ ret.t = "frame"
        /\ Len(ret.v) = cfg.num_channels
        /\ \A i \in 1..cfg.num_channels :
              LET b == ret.v[i]
              IN  /\ b[2] > 0
                  /\ 0 <= b[1] /\ b[1] <= b[2]
                  /\ IF 126 + i <= Len(rx)
                     THEN b[1] * 255 = rx[126 + i] * b[2]
                     ELSE b[1] = 0

\* A datagram with one channel more than the client has came back cut to
\* num_channels elements of 7/255.
C15_Witness ==
    /\ op = "receive"
    /\ Len(rx) = 126 + cfg.num_channels + 1
    /\ ret = [t |-> "frame", v |-> [i \in 1..cfg.num_channels |-> << 7, 255 >>]]

\* C16: a broadcast() on an open socket makes one sendto per universe of the
\* frame, in order and once each, whichever of them fail with a socket
\* error; it does not raise and the counter advances by one.
C16_FailedSendSkipped ==
    [][(op' = "broadcast" /\ network_stream = "open") =>
          /\ Len(sent') = Ceil(Len(arg'), cfg.universe_boundary)
          /\ \A k \in 1..Len(sent') :
                UniverseOf(sent'[k].data) = cfg.universe_start + k - 1
          /\ ~raised'
          /\ ret' = None
          /\ sequence_num' = (sequence_num + 1) % 256]_vars

\* The send of the first of two universes failed; the second went out and
\* the counter moved on.
C16_Witness ==
    /\ op = "broadcast"
    /\ Len(sent) = 2
    /\ ~sent[1].ok
    /\ sent[2].ok
    /\ calls = 1
    /\ sequence_num = 1

\* C19 as claimed: broadcast_overrides() on an open control stream makes one
\* send of the JSON message of type 'overrides' with the three given lists
\* to every non-empty address of sacn_address, or one to '<broadcast>' when
\* sacn_address is empty, each on the control port, and does not raise.
C19_OneMessagePerAddress ==
    (op = "broadcast_overrides" /\ control_stream = "open") =>
        LET to == ControlTargets(cfg)
        IN  /\ ~raised
            /\ Len(ctl_sent) = Len(to)
            /\ \A k \in 1..Len(ctl_sent) :
                  /\ ctl_sent[k].to = to[k]
                  /\ ctl_sent[k].port = 8889
                  /\ ctl_sent[k].data.json
                  /\ ctl_sent[k].data.value.type = "overrides"
                  /\ << ctl_sent[k].data.value.always_off, ctl_sent[k].data.value.always_on,
                        ctl_sent[k].data.value.inverted >> = arg

\* C20: receive_control_message() does not raise; it returns None on a
\* timeout, on an unavailable control stream, on a datagram that is not JSON
\* and on a message without a 'type' field, and the decoded message exactly
\* when that is a JSON object with a 'type' field.
C20_TypedOrNone ==
    op = "receive_control_message" =>
        /\ ~raised
        /\ control_stream # "open" => ret = None
        /\ arg = << >> => ret = None
        /\ arg # << >> =>
              LET d == arg[1]
              IN  IF d.json /\ d.value.t = "dict" /\ "type" \in DOMAIN d.value
                  THEN ret = d.value
                  ELSE ret = None

\* A JSON object without 'type' arrived and was dropped.
C20_Witness ==
    /\ op = "receive_control_message"
    /\ control_stream = "open"
    /\ arg = << [json |-> TRUE, value |-> [t |-> "dict", always_off |-> << 1 >>]] >>
    /\ ret = None

\* ------------------------------------------------- channel override table
\* Levels are fractions << numerator, denominator >>.
Zero == << 0, 1 >>

One == << 1, 1 >>

\* 1.0 - level
Complement(level) == << level[2] - level[1], level[2] >>

\* Whether two fractions are the same number.
SameLevel(x, y) == x[1] * y[2] = y[1] * x[2]

\* A faulty order of the tests: inversion looked at first.
Apply_invertedfirst(frame, always_off, always_on, inverted) ==
    [i \in 1..Len(frame) |->
        IF (i - 1) \in inverted THEN Complement(frame[i])
        ELSE IF (i - 1) \in always_off THEN Zero
        ELSE IF (i - 1) \in always_on THEN One
        ELSE frame[i]]

\* apply(frame, always_off, always_on, inverted): channels are numbered
\* from 0; the three tests are made in this order for every channel.
Apply(frame, always_off, always_on, inverted) ==
    [i \in 1..Len(frame) |->
        IF (i - 1) \in always_off THEN Zero
        ELSE IF (i - 1) \in always_on THEN One
        ELSE IF (i - 1) \in inverted THEN Complement(frame[i])
        ELSE frame[i]]

\* The override sets tried: over the first two channels, so that the sets
\* overlap in every way and the last channel of a full frame is in none.
OverrideSets == SUBSET { 0, 1 }

\* The orchestrator applies the table to the frame of a tick.
ApplyOverrides ==
    /\ a_pc = "input"
    /\ a_out' = Apply(a_in.frame, a_in.always_off, a_in.always_on, a_in.inverted)
    /\ a_pc' = "done"
    /\ UNCHANGED << a_in, op, arg, ret, raised, beside_overrides >>

InitOverrides ==
    /\ Constructed(Config("sacn_server", 1, 1, MaxChannels, NoAddress), TRUE)
    /\ Quiet
    /\ CodecIdle
    /\ ThreadsIdle
    /\ EngineIdle
    /\ ServiceIdle
    /\ PhysicalIdle
    /\ FurtherIdle
    /\ a_pc = "input"
    /\ \E f \in Frames(MaxChannels), off \in OverrideSets, on \in OverrideSets,
          inv \in OverrideSets :
          a_in = [frame |-> f, always_off |-> off, always_on |-> on, inverted |-> inv]
    /\ a_out = None

NextOverrides ==
    \/ ApplyOverrides

SpecOverrides == InitOverrides /\ [][NextOverrides]_vars

\* C21: the output of apply() has the frame's length and, for every channel
\* i, is 0.0 if i is in always_off, else 1.0 if i is in always_on, else
\* 1.0 - frame[i] if i is in inverted, else frame[i]; so off wins over
\* inverted.
C21_OverridePrecedence ==
    a_pc = "done" =>
        /\ Len(a_out) = Len(a_in.frame)
        /\ \A i \in 0..(Len(a_in.frame) - 1) :
              LET x == a_in.frame[i + 1]
                  y == a_out[i + 1]
              IN  /\ i \in a_in.always_off => y[1] = 0
                  /\ i \in a_in.always_on \ a_in.always_off => y[1] = y[2]
                  /\ i \in a_in.inverted \ (a_in.always_off \cup a_in.always_on) =>
                        y[1] * x[2] = (x[2] - x[1]) * y[2]
                  /\ i \notin (a_in.always_off \cup a_in.always_on \cup a_in.inverted) =>
                        SameLevel(y, x)
                  /\ i \in a_in.always_off \cap a_in.inverted => SameLevel(y, Zero)

\* Channel 0 at half brightness is in always_off and in inverted and comes
\* out dark; channel 1 is only inverted and comes out as its complement.
C21_Witness ==
    /\ a_pc = "done"
    /\ Len(a_in.frame) = MaxChannels
    /\ a_in.frame[1] = << Scale \div 2, Scale >>
    /\ a_in.always_off = { 0 }
    /\ a_in.always_on = {}
    /\ a_in.inverted = { 0, 1 }
    /\ a_out[1] = Zero
    /\ SameLevel(a_out[2], Complement(a_in.frame[2]))
    /\ a_out[3] = a_in.frame[3]

\* ----------------------------------------------------- band-energy engine
\* The bands an engine is asked for go up to this many.
MaxBins == 3

\* The magnitude of a full-scale int16 sample.
FullScale == 32768

Abs(x) == IF x < 0 THEN 0 - x ELSE x

RECURSIVE Pow(_, _)
Pow(x, e) == IF e = 0 THEN 1 ELSE x * Pow(x, e - 1)

RECURSIVE SumTo(_, _)
\* f[1] + ... + f[n]
SumTo(f, n) == IF n = 0 THEN 0 ELSE f[n] + SumTo(f, n - 1)

RECURSIVE IsqrtIn(_, _, _)
\* The largest r in lo..hi with r * r <= n.
IsqrtIn(n, lo, hi) ==
    IF lo >= hi THEN lo
    ELSE LET mid == (lo + hi + 1) \div 2
         IN  IF mid * mid <= n THEN IsqrtIn(n, mid, hi) ELSE IsqrtIn(n, lo, mid - 1)

\* abs(re + j*im), computed to 1 part in 64 of a sample so that the squares
\* stay within 32-bit integers.
Magnitude(re, im) ==
    IF im = 0 THEN Abs(re)
    ELSE IF re = 0 THEN Abs(im)
    ELSE LET a == Abs(re) \div 64
             b == Abs(im) \div 64
         IN  64 * IsqrtIn(a * a + b * b, 0, a + b)

\* The block sizes small enough that every twiddle factor of the transform
\* is one of 1, -j, -1, j.
ChunkSizes == { 2, 4 }

\* cos and -sin of the multiples of a quarter turn
Cos4 == << 1, 0, -1, 0 >>

Sin4 == << 0, -1, 0, 1 >>

\* Twice the Hann window of the block, which is integral for these sizes.
Window(chunk_size) == IF chunk_size = 2 THEN << 0, 2 >> ELSE << 0, 1, 2, 1 >>

\* Input shorter than chunk_size is zero-padded, longer is truncated.
FitBlock(samples, chunk_size) ==
    [n \in 1..chunk_size |-> IF n <= Len(samples) THEN samples[n] ELSE 0]

\* Bin k of the transform of the windowed block, as << re, im >>.
Bin(x, chunk_size, k) ==
    LET w == Window(chunk_size)
        turn(n) == ((k * (n - 1) * (4 \div chunk_size)) % 4) + 1
    IN  << SumTo([n \in 1..chunk_size |-> w[n] * x[n] * Cos4[turn(n)]], chunk_size),
           SumTo([n \in 1..chunk_size |-> w[n] * x[n] * Sin4[turn(n)]], chunk_size) >>

\* Whether the frequency of bin k, k * sample_rate / chunk_size, is at or
\* above edge e of the num_bins log-spaced bands of [min_frequency,
\* max_frequency), min_frequency * (max_frequency / min_frequency) ^
\* (e / num_bins); compared exactly, both sides raised to num_bins.
AtOrAbove(inst_, k, e) ==
    Pow(k * inst_.sample_rate, inst_.num_bins) * Pow(inst_.min_frequency, e)
        >= Pow(inst_.chunk_size * inst_.min_frequency, inst_.num_bins)
              * Pow(inst_.max_frequency, e)

\* The bins of the transform that fall into band j (from 1).
BandBins(inst_, j) ==
    { k \in 0..(inst_.chunk_size \div 2) :
        AtOrAbove(inst_, k, j - 1) /\ ~AtOrAbove(inst_, k, j) }

\* The magnitude every bin is measured against: full-scale samples all in
\* phase under the window.
Reference(chunk_size) == FullScale * SumTo(Window(chunk_size), chunk_size)

\* The level of band j: the mean magnitude of its bins relative to the
\* reference, clipped to [0.0, 1.0]; 0.0 for a band no bin falls into.
BandLevel(inst_, x, j) ==
    LET bins == BandBins(inst_, j)
        mags == [k \in bins |-> Magnitude(Bin(x, inst_.chunk_size, k)[1],
                                           Bin(x, inst_.chunk_size, k)[2])]
        total == SumTo([i \in 1..(inst_.chunk_size \div 2 + 1) |->
                           IF (i - 1) \in bins THEN mags[i - 1] ELSE 0],
                       inst_.chunk_size \div 2 + 1)
        full == Cardinality(bins) * Reference(inst_.chunk_size)
    IN  IF bins = {} THEN Zero ELSE << Min(total, full), full >>

\* A faulty aggregation: a band no bin falls into is left out.
CalculateLevels_dropempty(inst_, samples) ==
    LET x == FitBlock(samples, inst_.chunk_size)
        kept == { j \in 1..inst_.num_bins : BandBins(inst_, j) # {} }
        nth(i) == CHOOSE j \in kept : Cardinality({ h \in kept : h < j }) = i - 1
    IN  [i \in 1..Cardinality(kept) |-> BandLevel(inst_, x, nth(i))]

\* calculate_levels(samples)
CalculateLevels(inst_, samples) ==
    LET x == FitBlock(samples, inst_.chunk_size)
    IN  [j \in 1..inst_.num_bins |-> BandLevel(inst_, x, j)]

\* A faulty fallback: the request is taken at its word.
ResolveGpu_asrequested(requested) == requested

\* use_gpu=True is accepted and falls back to the CPU path.
ResolveGpu(requested) == FALSE

\* Fails if min_frequency >= max_frequency or num_bins <= 0.
ConfigurationError(req) ==
    req.min_frequency >= req.max_frequency \/ req.num_bins <= 0

\* initialize(chunk_size, sample_rate, num_bins, min_frequency,
\* max_frequency, custom_channel_mapping=0, custom_channel_frequencies=0,
\* use_gpu)
Initialize ==
    /\ fft_request # None
    /\ fft_instance = None
    /\ op # "initialize"
    /\ op' = "initialize"
    /\ arg' = fft_request
    /\ ret' = None
    /\ raised' = ConfigurationError(fft_request)
    /\ fft_instance' =
          IF ConfigurationError(fft_request) THEN None
          ELSE [chunk_size |-> fft_request.chunk_size,
                sample_rate |-> fft_request.sample_rate,
                num_bins |-> fft_request.num_bins,
                min_frequency |-> fft_request.min_frequency,
                max_frequency |-> fft_request.max_frequency,
                use_gpu |-> ResolveGpu(fft_request.use_gpu)]
    /\ UNCHANGED << fft_request, beside_engine >>

\* A tick hands the engine one block of samples.
CalculateLevelsCall(samples) ==
    /\ fft_instance # None
    /\ op' = "calculate_levels"
    /\ arg' = samples
    /\ ret' = CalculateLevels(fft_instance, samples)
    /\ raised' = FALSE
    /\ UNCHANGED << engine, beside_engine >>

\* Silence, a full-scale sine of a quarter of the sample rate, and noise.
Waves == { << 0, 0, 0, 0, 0 >>, << 0, 32767, 0, -32767, 0 >>,
           << -32768, 12345, -7, 32767, 501 >> }

\* Their first samples: no block, one sample short, exact, one too many.
Blocks(chunk_size) ==
    { [n \in 1..len |-> w[n]] :
        w \in Waves, len \in { 0, chunk_size - 1, chunk_size, chunk_size + 1 } }

FrequencyRanges == { << 1, 2 >>, << 1, 4 >>, << 2, 2 >> }

FftRequests ==
    { [chunk_size |-> c, sample_rate |-> r, num_bins |-> b, min_frequency |-> f[1],
       max_frequency |-> f[2], use_gpu |-> g] :
        c \in ChunkSizes, r \in { 4, 8 }, b \in 0..MaxBins, f \in FrequencyRanges,
        g \in BOOLEAN }

InitFft ==
    /\ Constructed(Config("sacn_server", 1, 1, MaxChannels, NoAddress), TRUE)
    /\ Quiet
    /\ CodecIdle
    /\ ThreadsIdle
    /\ OverridesIdle
    /\ ServiceIdle
    /\ PhysicalIdle
    /\ FurtherIdle
    /\ fft_request \in FftRequests
    /\ fft_instance = None

NextFft ==
    \/ Initialize
    \/ \E samples \in Blocks(fft_request.chunk_size) : CalculateLevelsCall(samples)

SpecFft == InitFft /\ [][NextFft]_vars

\* C22: calculate_levels returns exactly num_bins values, each a level in
\* [0.0, 1.0], for every block handed to it and every chunk size, sample
\* rate and range the engine was initialized with.
C22_NumBinsLevels ==
    op = "calculate_levels" =>
        /\ Len(ret) = fft_instance.num_bins
        /\ \A j \in 1..Len(ret) : 0 <= ret[j][1] /\ ret[j][1] <= ret[j][2]

\* A sine one sample too long went into three bands of a four-sample
\* engine; the band holding its frequency is lit, an empty band is dark.
C22_Witness ==
    /\ op = "calculate_levels"
    /\ arg = << 0, 32767, 0, -32767, 0 >>
    /\ fft_instance.chunk_size = 4
    /\ fft_instance.num_bins = 3
    /\ Len(ret) = 3
    /\ \E j \in 1..3 : ret[j][1] > 0
    /\ \E j \in 1..3 : BandBins(fft_instance, j) = {} /\ ret[j] = Zero

\* C23: the use_gpu an initialized engine exposes is False, whatever was
\* requested, and stays False through its calls.
C23_NoGpu ==
    fft_instance # None => fft_instance.use_gpu = FALSE

\* An engine asked for with use_gpu=True has computed levels.
C23_Witness ==
    /\ fft_request # None
    /\ fft_request.use_gpu
    /\ fft_instance # None
    /\ op = "calculate_levels"
    /\ fft_instance.use_gpu = FALSE

\* ------------------------------------------------------- lightshow manager
\* The manager as the button service sees it: self.process is "None", an
\* "alive" subprocess or one that has "exited" and was not yet polled;
\* self.state is a LightshowState.
Manager(process, state) == [t |-> "LightshowManager", process |-> process, state |-> state]

\* What a method hands back and what it leaves of the manager.
Did(value, m) == [ret |-> value, lm |-> m]

\* LightshowManager.is_running()
IsRunning(m) ==
    IF m.process = "None" THEN Did(FALSE, m)
    ELSE IF m.process = "exited"
    THEN Did(FALSE, [m EXCEPT !.process = "None",
                              !.state = IF @ = "playing" THEN "idle" ELSE @])
    ELSE Did(TRUE, m)

\* How a launch of the subprocess can end.
Launches == { "ok", "invalid", "died" }

\* LightshowManager.start(): nothing when the state says playing or
\* starting; otherwise the playlist may be missing or Popen may raise
\* ("invalid"), the subprocess may be gone a second later ("died"), or it
\* plays.  It never raises.
Start(m, launch) ==
    IF m.state \in { "playing", "starting" } THEN Did(FALSE, m)
    ELSE IF launch = "invalid" THEN Did(FALSE, [m EXCEPT !.state = "error"])
    ELSE IF launch = "died" THEN Did(FALSE, Manager("exited", "error"))
    ELSE Did(TRUE, Manager("alive", "playing"))

\* LightshowManager.skip(): writes play_now = -1 to the state file; a
\* failure of that is returned, not raised.
Skip(m, written) == Did(written, m)

\* --------------------------------------------------- ButtonManagerService
\* class ButtonAction
ButtonAction == { "skip", "repeat_toggle", "audio_toggle" }

\* A value that is not None: what a method returns, or an Optional that is
\* set.
Some(v) == [t |-> "Some", v |-> v]

\* The truth value Python gives an Optional[float].
Truthy(x) == x # None /\ x.v # 0

\* The instance as one value.
Self ==
    [lightshow_manager |-> lightshow_manager, enabled |-> enabled,
     repeat_mode |-> repeat_mode, audio_on |-> audio_on,
     audio_cooldown_until |-> audio_cooldown_until, last_action |-> last_action,
     last_action_time |-> last_action_time, button_press_start |-> button_press_start,
     audio_timeout |-> audio_timeout, cooldown_duration |-> cooldown_duration,
     audio_shutoff_time |-> audio_shutoff_time]

\* How a method ends: the instance it leaves, what it returns, whether it
\* raises, and the methods of the lightshow manager it called.
Ends(self, value, exc, called) ==
    [self |-> self, ret |-> value, raised |-> exc, calls |-> called]

\* _audio_on(), with the time.time() it reads
AudioOn(self, now) ==
    [self EXCEPT !.audio_on = TRUE,
                 !.audio_cooldown_until = now + self.cooldown_duration,
                 !.audio_shutoff_time = Some(now + self.audio_timeout)]

\* _audio_off(), with the time.time() it reads
AudioOff(self, now) ==
    [self EXCEPT !.audio_on = FALSE,
                 !.audio_cooldown_until = now + self.cooldown_duration,
                 !.audio_shutoff_time = None]

\* A faulty choice: a start whether or not a song is playing.
HandleSkip_alwaysstart(self, now, launch, written) ==
    IF self.lightshow_manager = None THEN Ends(self, None, TRUE, << >>)
    ELSE LET lit == IF ~self.audio_on THEN AudioOn(self, now) ELSE self
             run == IsRunning(lit.lightshow_manager)
         IN  Ends([lit EXCEPT !.lightshow_manager = Start(run.lm, launch).lm],
                  Some(TRUE), FALSE, << "is_running", "start" >>)

\* _handle_skip()
HandleSkip(self, now, launch, written) ==
    IF self.lightshow_manager = None THEN Ends(self, None, TRUE, << >>)
    ELSE LET lit == IF ~self.audio_on THEN AudioOn(self, now) ELSE self
             run == IsRunning(lit.lightshow_manager)
         IN  IF run.ret
             THEN Ends([lit EXCEPT !.lightshow_manager = Skip(run.lm, written).lm],
                       Some(TRUE), FALSE, << "is_running", "skip" >>)
             ELSE Ends([lit EXCEPT !.lightshow_manager = Start(run.lm, launch).lm],
                       Some(TRUE), FALSE, << "is_running", "start" >>)

\* A faulty toggle: disabling repeat leaves the audio as it is.
HandleRepeatToggle_keepaudio(self, now, launch) ==
    LET flipped == [self EXCEPT !.repeat_mode = ~self.repeat_mode]
    IN  IF flipped.repeat_mode
        THEN LET lit == IF ~flipped.audio_on THEN AudioOn(flipped, now) ELSE flipped
             IN  IF lit.lightshow_manager # None
                 THEN Ends([lit EXCEPT !.lightshow_manager =
                                          Start(lit.lightshow_manager, launch).lm],
                           Some(TRUE), FALSE, << "start" >>)
                 ELSE Ends(lit, Some(TRUE), FALSE, << >>)
        ELSE Ends(flipped, Some(FALSE), FALSE, << >>)

\* _handle_repeat_toggle()
HandleRepeatToggle(self, now, launch) ==
    LET flipped == [self EXCEPT !.repeat_mode = ~self.repeat_mode]
    IN  IF flipped.repeat_mode
        THEN LET lit == IF ~flipped.audio_on THEN AudioOn(flipped, now) ELSE flipped
             IN  IF lit.lightshow_manager # None
                 THEN Ends([lit EXCEPT !.lightshow_manager =
                                          Start(lit.lightshow_manager, launch).lm],
                           Some(TRUE), FALSE, << "start" >>)
                 ELSE Ends(lit, Some(TRUE), FALSE, << >>)
        ELSE Ends(AudioOff(flipped, now), Some(FALSE), FALSE, << >>)

\* A faulty test: no cooldown.
OnCooldown_never(current_time, until) == FALSE

\* if current_time < self.audio_cooldown_until
OnCooldown(current_time, until) == current_time < until

\* _handle_audio_toggle(): current_time is its own reading of the clock, now
\* the later one of _audio_on() or _audio_off().
HandleAudioToggle(self, current_time, now, launch) ==
    IF OnCooldown(current_time, self.audio_cooldown_until)
    THEN Ends(self, None, TRUE, << >>)
    ELSE IF self.audio_on THEN Ends(AudioOff(self, now), Some(FALSE), FALSE, << >>)
    ELSE LET lit == AudioOn(self, now)
         IN  IF lit.lightshow_manager = None THEN Ends(lit, Some(TRUE), FALSE, << >>)
             ELSE LET run == IsRunning(lit.lightshow_manager)
                  IN  IF run.ret
                      THEN Ends([lit EXCEPT !.lightshow_manager = run.lm],
                                Some(TRUE), FALSE, << "is_running" >>)
                      ELSE Ends([lit EXCEPT !.lightshow_manager =
                                               Start(run.lm, launch).lm],
                                Some(TRUE), FALSE, << "is_running", "start" >>)

\* The dispatch of handle_button_action()
Dispatch(self, action, current_time, now, launch, written) ==
    IF action = "skip" THEN HandleSkip(self, now, launch, written)
    ELSE IF action = "repeat_toggle" THEN HandleRepeatToggle(self, now, launch)
    ELSE HandleAudioToggle(self, current_time, now, launch)

\* A faulty order: the action is recorded before the enabled test.
HandleButtonAction_recordfirst(self, action, current_time, now, launch, written) ==
    LET noted == [self EXCEPT !.last_action = Some(action),
                              !.last_action_time = Some(current_time)]
    IN  IF ~self.enabled THEN Ends(noted, None, TRUE, << >>)
        ELSE Dispatch(noted, action, current_time, now, launch, written)

\* handle_button_action(action)
HandleButtonAction(self, action, current_time, now, launch, written) ==
    IF ~self.enabled THEN Ends(self, None, TRUE, << >>)
    ELSE Dispatch([self EXCEPT !.last_action = Some(action),
                               !.last_action_time = Some(current_time)],
                  action, current_time, now, launch, written)

\* A faulty guard: repeat mode does not hold the shutoff back.
CheckAutoShutoff_norepeat(self, current_time, now) ==
    IF ~self.audio_on THEN Ends(self, None, FALSE, << >>)
    ELSE IF Truthy(self.audio_shutoff_time) /\ current_time > self.audio_shutoff_time.v
    THEN Ends(AudioOff(self, now), None, FALSE, << >>)
    ELSE Ends(self, None, FALSE, << >>)

\* check_auto_shutoff()
CheckAutoShutoff(self, current_time, now) ==
    IF ~self.audio_on \/ self.repeat_mode THEN Ends(self, None, FALSE, << >>)
    ELSE IF Truthy(self.audio_shutoff_time) /\ current_time > self.audio_shutoff_time.v
    THEN Ends(AudioOff(self, now), None, FALSE, << >>)
    ELSE Ends(self, None, FALSE, << >>)

\* The keys of self.button_press_start.
Tracked(presses) == { presses[i].name : i \in 1..Len(presses) }

\* del self.button_press_start[button_name]
Forget(presses, button_name) ==
    SelectSeq(presses, LAMBDA e : e.name # button_name)

\* A faulty tracking: every 'button_pressed' restarts the hold.
Press_restart(presses, button_name, now) ==
    Append(Forget(presses, button_name), [name |-> button_name, press_time |-> now])

\* if button_name not in self.button_press_start: ... = time.time()
Press(presses, button_name, now) ==
    IF button_name \in Tracked(presses) THEN presses
    ELSE Append(presses, [name |-> button_name, press_time |-> now])

\* if button_name in self.button_press_start: del ...
Release(presses, button_name) ==
    IF button_name \in Tracked(presses) THEN Forget(presses, button_name) ELSE presses

\* update_from_physical(state)
UpdateFromPhysical(self, state, now) ==
    LET synced == [self EXCEPT !.repeat_mode = Get(state, "repeat_mode", self.repeat_mode),
                               !.audio_on = Get(state, "audio_on", self.audio_on)]
        pressed == IF "button_pressed" \in DOMAIN state
                   THEN Press(synced.button_press_start, state.button_pressed, now)
                   ELSE synced.button_press_start
        released == IF "button_released" \in DOMAIN state
                    THEN Release(pressed, state.button_released)
                    ELSE pressed
    IN  Ends([synced EXCEPT !.button_press_start = released], None, FALSE, << >>)

\* self.stuck_threshold, in seconds
stuck_threshold == 30

\* A faulty loop: the repeat button is looked at like the others.
Suspects_all(presses) == { i \in 1..Len(presses) : TRUE }

\* The entries check_health() looks at: not those of the repeat button.
Suspects(presses) == { i \in 1..Len(presses) : presses[i].name # "repeat" }

\* The entries its loop finds held for too long.
Stuck(presses, current_time) ==
    { i \in Suspects(presses) : current_time - presses[i].press_time > stuck_threshold }

\* check_health(): the loop breaks at the first stuck entry.
CheckHealth(self, current_time) ==
    LET stuck == Stuck(self.button_press_start, current_time)
        first == CHOOSE i \in stuck : \A j \in stuck : i <= j
    IN  IF stuck = {}
        THEN Ends(self,
                  Some([healthy |-> TRUE, stuck_button |-> None, stuck_duration |-> None]),
                  FALSE, << >>)
        ELSE Ends(self,
                  Some([healthy |-> FALSE,
                        stuck_button |-> Some(self.button_press_start[first].name),
                        stuck_duration |->
                            Some(current_time - self.button_press_start[first].press_time)]),
                  FALSE, << >>)

\* A method of the service has run: its outcome becomes the state.
Served(name, argument, out, now) ==
    /\ op' = name
    /\ arg' = argument
    /\ ret' = out.ret
    /\ raised' = out.raised
    /\ lm_calls' = out.calls
    /\ lightshow_manager' = out.self.lightshow_manager
    /\ enabled' = out.self.enabled
    /\ repeat_mode' = out.self.repeat_mode
    /\ audio_on' = out.self.audio_on
    /\ audio_cooldown_until' = out.self.audio_cooldown_until
    /\ last_action' = out.self.last_action
    /\ last_action_time' = out.self.last_action_time
    /\ button_press_start' = out.self.button_press_start
    /\ audio_timeout' = out.self.audio_timeout
    /\ cooldown_duration' = out.self.cooldown_duration
    /\ audio_shutoff_time' = out.self.audio_shutoff_time
    /\ time' = now
    /\ UNCHANGED beside_service

\* The clock readings of a behaviour go up to Epoch + MaxTicks.
MaxTicks == 5

\* handle_button_action(action); the clock may move on by late seconds
\* between its first reading and the later ones.
HandleButtonActionCall(action, late, launch, written, limit) ==
    /\ time + late <= limit
    /\ Served("handle_button_action", action,
              HandleButtonAction(Self, action, time, time + late, launch, written),
              time + late)

\* check_auto_shutoff(), called periodically
CheckAutoShutoffCall(late, limit) ==
    /\ time + late <= limit
    /\ Served("check_auto_shutoff", << >>, CheckAutoShutoff(Self, time, time + late),
              time + late)

\* update_from_physical(state)
UpdateFromPhysicalCall(state) ==
    Served("update_from_physical", state, UpdateFromPhysical(Self, state, time), time)

\* check_health()
CheckHealthCall ==
    Served("check_health", << >>, CheckHealth(Self, time), time)

\* set_lightshow_manager(manager) with a manager that has started nothing
SetLightshowManager ==
    /\ lightshow_manager = None
    /\ Served("set_lightshow_manager", << >>,
              Ends([Self EXCEPT !.lightshow_manager = Manager("None", "idle")],
                   None, FALSE, << >>),
              time)

\* The subprocess of the lightshow ends on its own.
ProcessExits ==
    /\ lightshow_manager # None
    /\ lightshow_manager.process = "alive"
    /\ lightshow_manager' = [lightshow_manager EXCEPT !.process = "exited"]
    /\ UNCHANGED << enabled, repeat_mode, audio_on, audio_cooldown_until, last_action,
                    last_action_time, button_press_start, audio_timeout,
                    cooldown_duration, audio_shutoff_time, lm_calls, time,
                    op, arg, ret, raised, beside_service >>

\* Time passes.
Tick(seconds, limit) ==
    /\ time + seconds <= limit
    /\ time' = time + seconds
    /\ UNCHANGED << lightshow_manager, enabled, repeat_mode, audio_on,
                    audio_cooldown_until, last_action, last_action_time,
                    button_press_start, audio_timeout, cooldown_duration,
                    audio_shutoff_time, lm_calls, op, arg, ret, raised, beside_service >>

\* ButtonManagerService.__init__(config, lightshow_manager)
ServiceConstructed(on, timeout, cooldown, manager) ==
    /\ lightshow_manager = manager
    /\ enabled = on
    /\ repeat_mode = FALSE
    /\ audio_on = FALSE
    /\ audio_cooldown_until = 0
    /\ last_action = None
    /\ last_action_time = None
    /\ button_press_start = << >>
    /\ audio_timeout = timeout
    /\ cooldown_duration = cooldown
    /\ audio_shutoff_time = None
    /\ lm_calls = << >>
    /\ time = Epoch

\* The sACN side rests while the service is exercised.
SacnIdle ==
    /\ Constructed(Config("sacn_server", 1, 1, MaxChannels, NoAddress), TRUE)
    /\ Quiet
    /\ CodecIdle
    /\ ThreadsIdle

\* What the physical button manager reports of its modes.
ModeReports ==
    { [repeat_mode |-> TRUE], [audio_on |-> TRUE],
      [repeat_mode |-> FALSE, audio_on |-> FALSE] }

\* A service with a cooldown of two seconds and an audio timeout of three,
\* virtual button presses, periodic shutoff checks, reports of the physical
\* buttons, and a lightshow that may end by itself.
InitButtons ==
    /\ SacnIdle
    /\ OverridesIdle
    /\ EngineIdle
    /\ PhysicalIdle
    /\ FurtherIdle
    /\ \E on \in BOOLEAN, manager \in { None, Manager("None", "idle") } :
          ServiceConstructed(on, 3, 2, manager)

NextButtons ==
    \/ \E action \in ButtonAction, late \in 0..1, launch \in Launches, written \in BOOLEAN :
          HandleButtonActionCall(action, late, launch, written, Epoch + MaxTicks)
    \/ \E late \in 0..1 : CheckAutoShutoffCall(late, Epoch + MaxTicks)
    \/ \E state \in ModeReports : UpdateFromPhysicalCall(state)
    \/ SetLightshowManager
    \/ ProcessExits
    \/ Tick(1, Epoch + MaxTicks)

SpecButtons == InitButtons /\ [][NextButtons]_vars

\* A step that is a call of handle_button_action(action).
Pressed(action) ==
    \E late \in 0..1, launch \in Launches, written \in BOOLEAN :
        HandleButtonActionCall(action, late, launch, written, Epoch + MaxTicks)

\* C24: on an enabled service an AUDIO_TOGGLE before the cooldown deadline
\* raises and leaves audio_on, the cooldown deadline and the auto-shutoff
\* deadline as they were; one at or after the deadline flips audio_on,
\* returns the new value and starts a new cooldown from the time it acts.
C24_AudioToggleCooldown ==
    [][(enabled /\ Pressed("audio_toggle")) =>
          IF time < audio_cooldown_until
          THEN /\ raised'
               /\ audio_on' = audio_on
               /\ audio_cooldown_until' = audio_cooldown_until
               /\ audio_shutoff_time' = audio_shutoff_time
          ELSE /\ ~raised'
               /\ audio_on' = ~audio_on
               /\ ret' = Some(audio_on')
               /\ audio_cooldown_until' = time' + cooldown_duration
               /\ audio_cooldown_until' > time']_vars

\* A toggle turned the audio on at the start and a second one, a second
\* later and within the cooldown, was refused.
C24_Witness ==
    /\ enabled
    /\ op = "handle_button_action"
    /\ arg = "audio_toggle"
    /\ raised
    /\ time = Epoch + 1
    /\ audio_on
    /\ audio_cooldown_until = Epoch + cooldown_duration
    /\ audio_shutoff_time = Some(Epoch + audio_timeout)
    /\ ~repeat_mode

\* C25: on a disabled service handle_button_action raises for every action,
\* calls no method of the lightshow manager and leaves the manager and every
\* field of the service, last_action and last_action_time among them, as
\* they were.
C25_DisabledRefuses ==
    [][(~enabled /\ \E action \in ButtonAction : Pressed(action)) =>
          /\ raised'
          /\ lm_calls' = << >>
          /\ UNCHANGED << lightshow_manager, enabled, repeat_mode, audio_on,
                          audio_cooldown_until, last_action, last_action_time,
                          button_press_start, audio_timeout, cooldown_duration,
                          audio_shutoff_time >>]_vars

\* A disabled service that has a lightshow manager and was told of the
\* physical repeat mode has refused a skip and recorded nothing.
C25_Witness ==
    /\ ~enabled
    /\ op = "handle_button_action"
    /\ arg = "skip"
    /\ raised
    /\ lightshow_manager = Manager("None", "idle")
    /\ repeat_mode
    /\ last_action = None
    /\ last_action_time = None
    /\ time > Epoch

\* C26 as claimed: a REPEAT_TOGGLE handled by an enabled service flips
\* repeat_mode and returns the new value; when that is True, audio_on is
\* True afterwards and a start of the lightshow is requested; when it is
\* False, audio_on is False afterwards and the auto-shutoff deadline is
\* cleared.
C26_RepeatToggleStarts ==
    [][(enabled /\ Pressed("repeat_toggle")) =>
          /\ ~raised'
          /\ repeat_mode' = ~repeat_mode
          /\ ret' = Some(repeat_mode')
          /\ repeat_mode' => audio_on' /\ lm_calls' = << "start" >>
          /\ ~repeat_mode' => ~audio_on' /\ audio_shutoff_time' = None]_vars

\* C26, amended: the same, but the start of the lightshow is requested when
\* the service has a lightshow manager, and nothing is requested when it
\* has none.
C26_RepeatToggle ==
    [][(enabled /\ Pressed("repeat_toggle")) =>
          /\ ~raised'
          /\ repeat_mode' = ~repeat_mode
          /\ ret' = Some(repeat_mode')
          /\ repeat_mode' =>
                /\ audio_on'
                /\ lm_calls' = IF lightshow_manager # None THEN << "start" >> ELSE << >>
          /\ ~repeat_mode' =>
                /\ ~audio_on'
                /\ audio_shutoff_time' = None
                /\ lm_calls' = << >>]_vars

\* Repeat was switched on, which lit the audio and asked the manager to
\* start, and switched off again a second later: the audio is off, its
\* deadline cleared, a new cooldown running.
C26_Witness ==
    /\ enabled
    /\ op = "handle_button_action"
    /\ arg = "repeat_toggle"
    /\ ret = Some(FALSE)
    /\ ~repeat_mode
    /\ ~audio_on
    /\ audio_shutoff_time = None
    /\ audio_cooldown_until = time + cooldown_duration
    /\ time = Epoch + 1
    /\ lightshow_manager = Manager("alive", "playing")

\* The methods named in a sequence of calls.
Called(called) == { called[i] : i \in 1..Len(called) }

\* C27: a SKIP handled by an enabled service that has a lightshow manager
\* does not raise; it calls skip() and not start() when the subprocess of
\* the lightshow is alive, start() and not skip() when it is not; audio_on
\* is True afterwards and last_action is 'skip' with the time of the call.
C27_SkipOrStart ==
    [][(enabled /\ lightshow_manager # None /\ Pressed("skip")) =>
          /\ ~raised'
          /\ IF lightshow_manager.process = "alive"
             THEN "skip" \in Called(lm_calls') /\ "start" \notin Called(lm_calls')
             ELSE "start" \in Called(lm_calls') /\ "skip" \notin Called(lm_calls')
          /\ audio_on'
          /\ last_action' = Some("skip")
          /\ last_action_time' # None
          /\ last_action_time'.v \in time..time']_vars

\* A first skip started the lightshow; a second one, later, found it
\* running and skipped the song.
C27_Witness ==
    /\ enabled
    /\ op = "handle_button_action"
    /\ arg = "skip"
    /\ ~raised
    /\ lm_calls = << "is_running", "skip" >>
    /\ lightshow_manager = Manager("alive", "playing")
    /\ audio_on
    /\ last_action = Some("skip")
    /\ last_action_time = Some(Epoch + 1)
    /\ audio_shutoff_time = Some(Epoch + audio_timeout)

\* A step that is a call of check_auto_shutoff().
ShutoffChecked == \E late \in 0..1 : CheckAutoShutoffCall(late, Epoch + MaxTicks)

\* The clock is past the auto-shutoff deadline.
PastDeadline == audio_shutoff_time # None /\ time > audio_shutoff_time.v

\* C28: check_auto_shutoff() turns the audio off and clears the deadline
\* when audio_on is True, repeat_mode is False and the clock is past the
\* deadline; in every other case, so whenever repeat_mode is True, it
\* changes nothing of the service.
C28_AutoShutoff ==
    [][ShutoffChecked =>
          /\ ~raised'
          /\ lm_calls' = << >>
          /\ IF audio_on /\ ~repeat_mode /\ PastDeadline
             THEN ~audio_on' /\ audio_shutoff_time' = None
             ELSE UNCHANGED << lightshow_manager, enabled, repeat_mode, audio_on,
                               audio_cooldown_until, last_action, last_action_time,
                               button_press_start, audio_timeout, cooldown_duration,
                               audio_shutoff_time >>]_vars

\* The audio was toggled on at the start; the check one second past its
\* deadline has turned it off.
C28_Witness ==
    /\ op = "check_auto_shutoff"
    /\ last_action = Some("audio_toggle")
    /\ last_action_time = Some(Epoch)
    /\ time = Epoch + audio_timeout + 1
    /\ ~audio_on
    /\ ~repeat_mode
    /\ audio_shutoff_time = None
    /\ audio_cooldown_until = time + cooldown_duration

\* The buttons the physical button manager reports.
Buttons == { "skip", "audio", "repeat" }

\* Its reports of presses and releases; one carries both keys.
ButtonReports ==
    { [button_pressed |-> b] : b \in Buttons } \cup
    { [button_released |-> b] : b \in Buttons } \cup
    { [button_pressed |-> "skip", button_released |-> "skip"] }

\* A service that is told of presses and releases and asked for its health,
\* while seconds pass one by one and once by the stuck threshold.
InitHealth ==
    /\ SacnIdle
    /\ OverridesIdle
    /\ EngineIdle
    /\ PhysicalIdle
    /\ FurtherIdle
    /\ ServiceConstructed(TRUE, 300, 5, None)

NextHealth ==
    \/ \E state \in ButtonReports : UpdateFromPhysicalCall(state)
    \/ CheckHealthCall
    \/ Tick(1, Epoch + MaxTicks)
    \/ Tick(stuck_threshold, Epoch + stuck_threshold + MaxTicks)

SpecHealth == InitHealth /\ [][NextHealth]_vars

\* Since when a button is tracked, None when it is not.
HeldSince(presses, b) ==
    IF b \in Tracked(presses)
    THEN Some(presses[CHOOSE i \in 1..Len(presses) : presses[i].name = b].press_time)
    ELSE None

\* The buttons other than 'repeat' held for more than 30 seconds.
HeldTooLong(presses, now) ==
    { b \in Tracked(presses) \ { "repeat" } : now - HeldSince(presses, b).v > 30 }

\* C29: check_health() reports unhealthy exactly when a tracked button other
\* than 'repeat' has been held for more than 30 seconds, and then names
\* such a button and how long it was held.  A 'button_released' report ends
\* the tracking of its button, a 'button_pressed' report starts it at the
\* time of the report unless the button is tracked already, and nothing
\* else changes what is tracked.
C29_StuckButtons ==
    [][/\ CheckHealthCall =>
             /\ ~raised'
             /\ ret'.v.healthy = (HeldTooLong(button_press_start, time) = {})
             /\ ~ret'.v.healthy =>
                   /\ ret'.v.stuck_button.v \in HeldTooLong(button_press_start, time)
                   /\ ret'.v.stuck_duration =
                         Some(time - HeldSince(button_press_start,
                                               ret'.v.stuck_button.v).v)
       /\ \A state \in ButtonReports :
             UpdateFromPhysicalCall(state) =>
                \A b \in Buttons :
                   HeldSince(button_press_start', b) =
                      IF "button_released" \in DOMAIN state /\ state.button_released = b
                      THEN None
                      ELSE IF /\ "button_pressed" \in DOMAIN state
                              /\ state.button_pressed = b
                              /\ b \notin Tracked(button_press_start)
                      THEN Some(time)
                      ELSE HeldSince(button_press_start, b)
       /\ (~ \E state \in ButtonReports : UpdateFromPhysicalCall(state)) =>
             UNCHANGED button_press_start]_vars

\* 'repeat' and 'skip' were pressed at the start and are held; 31 seconds
\* on the service is unhealthy and names 'skip'.
C29_Witness ==
    /\ op = "check_health"
    /\ time = Epoch + stuck_threshold + 1
    /\ button_press_start = << [name |-> "repeat", press_time |-> Epoch],
                               [name |-> "skip", press_time |-> Epoch] >>
    /\ ret = Some([healthy |-> FALSE, stuck_button |-> Some("skip"),
                   stuck_duration |-> Some(stuck_threshold + 1)])

\* -------------------------------------------------- physical button manager
\* DEFAULT_COOLDOWN and DEFAULT_AUDIO_TIMEOUT, at their fallback values
DEFAULT_COOLDOWN == 5

DEFAULT_AUDIO_TIMEOUT == 300

\* The globals of py/buttonmanager.py as one value.
Globals ==
    [API_ENABLED |-> API_ENABLED, BUTTON_MODE |-> BUTTON_MODE,
     repeat_mode |-> pb_repeat_mode, audio_cooldown |-> audio_cooldown,
     audio_turnoff |-> audio_turnoff, outlet |-> outlet, play_now |-> play_now]

\* The button manager process and the API service it talks to, with the
\* functions called and the API calls made so far in a handler, and the
\* methods of the lightshow manager the service called for the last of them.
World(g, self, called, posted, lm) ==
    [g |-> g, self |-> self, calls |-> called, api |-> posted, lm |-> lm]

\* call_api(endpoint) for the endpoint of a button action: False without
\* the API; otherwise the request may not get through (reach), and the
\* router answers 200 exactly when handle_button_action does not raise.
CallApi(w, action, reach, launch, now) ==
    IF ~w.g.API_ENABLED THEN [ok |-> FALSE, w |-> w]
    ELSE IF ~reach
    THEN [ok |-> FALSE,
          w |-> [w EXCEPT !.api = Append(@, [endpoint |-> action, ok |-> FALSE])]]
    ELSE LET out == HandleButtonAction(w.self, action, now, now, launch, TRUE)
         IN  [ok |-> ~out.raised,
              w |-> [w EXCEPT !.self = out.self,
                              !.lm = out.calls,
                              !.api = Append(@, [endpoint |-> action,
                                                 ok |-> ~out.raised])]]

\* audio_on()
AudioOnPhysical(g, now) ==
    [g EXCEPT !.audio_cooldown = now + DEFAULT_COOLDOWN,
              !.audio_turnoff = now + DEFAULT_AUDIO_TIMEOUT,
              !.outlet = TRUE]

\* audio_off()
AudioOffPhysical(g, now) ==
    [g EXCEPT !.audio_cooldown = now + DEFAULT_COOLDOWN, !.outlet = FALSE]

\* playsong(songindex)
PlaySong(w, songindex, reach, launch, now) ==
    LET tried == CallApi(w, "skip", reach, launch, now)
        queued == IF ~w.g.API_ENABLED \/ (~tried.ok /\ w.g.BUTTON_MODE = "auto")
                  THEN [tried.w EXCEPT !.g.play_now = songindex]
                  ELSE tried.w
    IN  [queued EXCEPT !.g = AudioOnPhysical(@, now),
                       !.calls = Append(@, "playsong")]

\* The second half of toggleRepeat(), under "Direct mode or fallback".
DirectToggle(w, reach, launch, now) ==
    IF ~w.g.API_ENABLED \/ (w.g.BUTTON_MODE = "auto" /\ ~w.g.repeat_mode)
    THEN IF ~w.g.repeat_mode
         THEN [PlaySong(w, -1, reach, launch, now) EXCEPT !.g.repeat_mode = TRUE]
         ELSE [w EXCEPT !.g = AudioOffPhysical([@ EXCEPT !.repeat_mode = FALSE], now),
                        !.calls = Append(@, "audio_off")]
    ELSE w

\* toggleRepeat(): reach1 and reach2 say whether its own API call and the
\* one of playsong() get through.
ToggleRepeat(w, reach1, reach2, launch, now) ==
    IF w.g.API_ENABLED
    THEN LET tried == CallApi(w, "repeat_toggle", reach1, launch, now)
         IN  IF tried.ok
             THEN DirectToggle([tried.w EXCEPT !.g.repeat_mode = ~@], reach2, launch, now)
             ELSE IF w.g.BUTTON_MODE = "auto"
             THEN DirectToggle(tried.w, reach2, launch, now)
             ELSE tried.w
    ELSE DirectToggle(w, reach2, launch, now)

\* A handler of the button manager process has run: the world it leaves
\* becomes the state.
Handled(name, w) ==
    /\ op' = name
    /\ arg' = << >>
    /\ ret' = None
    /\ raised' = FALSE
    /\ API_ENABLED' = w.g.API_ENABLED
    /\ BUTTON_MODE' = w.g.BUTTON_MODE
    /\ pb_repeat_mode' = w.g.repeat_mode
    /\ audio_cooldown' = w.g.audio_cooldown
    /\ audio_turnoff' = w.g.audio_turnoff
    /\ outlet' = w.g.outlet
    /\ play_now' = w.g.play_now
    /\ pb_calls' = w.calls
    /\ pb_api' = w.api
    /\ lm_calls' = w.lm
    /\ lightshow_manager' = w.self.lightshow_manager
    /\ enabled' = w.self.enabled
    /\ repeat_mode' = w.self.repeat_mode
    /\ audio_on' = w.self.audio_on
    /\ audio_cooldown_until' = w.self.audio_cooldown_until
    /\ last_action' = w.self.last_action
    /\ last_action_time' = w.self.last_action_time
    /\ button_press_start' = w.self.button_press_start
    /\ audio_timeout' = w.self.audio_timeout
    /\ cooldown_duration' = w.self.cooldown_duration
    /\ audio_shutoff_time' = w.self.audio_shutoff_time
    /\ UNCHANGED << time, beside_physical >>

\* The repeat button was held: toggleRepeat()
ToggleRepeatCall(reach1, reach2, launch) ==
    Handled("toggleRepeat",
            ToggleRepeat(World(Globals, Self, << >>, << >>, lm_calls),
                         reach1, reach2, launch, time))

\* init_api(mode) when it returns: "direct" does not look for the API;
\* "auto" uses it if it is there (available); "api" ends the process if it
\* is not.
InitApi(mode, available) ==
    /\ op = "init"
    /\ mode = "api" => available
    /\ Handled("init_api",
               World([Globals EXCEPT !.BUTTON_MODE = mode,
                                     !.API_ENABLED = (mode # "direct" /\ available)],
                     Self, << >>, << >>, lm_calls))

\* The button manager process beside an API service that has a lightshow
\* manager and is enabled or not: init_api() in one of the three modes,
\* then holds of the repeat button as seconds pass.
InitPhysical ==
    /\ SacnIdle
    /\ OverridesIdle
    /\ EngineIdle
    /\ PhysicalIdle
    /\ FurtherIdle
    /\ \E on \in BOOLEAN : ServiceConstructed(on, 300, 5, Manager("None", "idle"))

NextPhysical ==
    \/ \E mode \in { "api", "direct", "auto" }, available \in BOOLEAN : InitApi(mode, available)
    \/ \E reach1 \in BOOLEAN, reach2 \in BOOLEAN, launch \in Launches :
          ToggleRepeatCall(reach1, reach2, launch)
    \/ Tick(1, Epoch + MaxTicks)

SpecPhysical == InitPhysical /\ [][NextPhysical]_vars

\* A step that is a call of toggleRepeat().
RepeatHeld ==
    \E reach1 \in BOOLEAN, reach2 \in BOOLEAN, launch \in Launches :
        ToggleRepeatCall(reach1, reach2, launch)

\* C30 as claimed: a toggleRepeat() in direct mode, or with the API in use
\* and its API call answered with success, flips the button manager's
\* repeat_mode; enabling calls playsong(-1) and not audio_off(), disabling
\* calls audio_off() and not playsong().
C30_ToggleRepeatFlips ==
    [][(RepeatHeld /\ (~API_ENABLED \/ (pb_api' # << >> /\ pb_api'[1].ok))) =>
          /\ pb_repeat_mode' = ~pb_repeat_mode
          /\ pb_repeat_mode' => pb_calls' = << "playsong" >>
          /\ ~pb_repeat_mode' => pb_calls' = << "audio_off" >>]_vars

\* C37 as claimed: in a broadcast_overrides() on an open control stream a
\* sendto is made to every configured address, also to those that come after
\* one whose sendto failed.
C37_RemainingAddressesSent ==
    (op = "broadcast_overrides" /\ control_stream = "open") =>
        \A k \in 1..Len(ControlTargets(cfg)) :
            \E j \in 1..Len(ctl_sent) : ctl_sent[j].to = ControlTargets(cfg)[k]

\* ------------------------------------------- one server's stream, in order
\* Packets the channel may lose between two that it delivers.
MaxDropped == 7

\* Where the server's counter stands when the client starts to listen.
StreamStarts == { 0, 245 }

\* receive() of the next packet an in-order channel delivers of the stream of
\* one server, which stamps broadcast after broadcast with the next sequence
\* number: the packet that follows the last one delivered, or a later one
\* when `dropped` packets were lost in between.
ReceiveNext(frame, start, dropped) ==
    LET seq == IF src = NoSource THEN (start + dropped) % 256
               ELSE (src.sequence + 1 + dropped) % 256
    IN  ReceivePeer(frame, seq, 0)

\* A client of one universe listening to one server.
InitStream ==
    /\ Constructed(Config("sacn_client", 1, MaxBoundary, 1, NoAddress), TRUE)
    /\ Quiet
    /\ CodecIdle
    /\ ThreadsIdle
    /\ OthersIdle

NextStream ==
    \E f \in Frames(1), start \in StreamStarts, dropped \in 0..MaxDropped :
        ReceiveNext(f, start, dropped)

SpecStream == InitStream /\ [][NextStream]_vars

\* C36 as claimed: with one server and an in-order channel receive() never
\* logs "Out-of-order packet", across the wrap 255 -> 0 and with packets
\* dropped.
C36_InOrderNeverFlagged == ~flagged

\* ------------------------------------------------ the relay and its cooldown
\* The service of SpecButtons without reports of the physical buttons:
\* audio_on changes in _audio_on() and _audio_off() only, each of which sets
\* the cooldown deadline.
NextRelay ==
    \/ \E action \in ButtonAction, late \in 0..1, launch \in Launches, written \in BOOLEAN :
          HandleButtonActionCall(action, late, launch, written, Epoch + MaxTicks)
    \/ \E late \in 0..1 : CheckAutoShutoffCall(late, Epoch + MaxTicks)
    \/ SetLightshowManager
    \/ ProcessExits
    \/ Tick(1, Epoch + MaxTicks)

SpecRelay == InitButtons /\ [][NextRelay]_vars

\* C38 as claimed: audio that an action turned on is not turned off by any
\* action (SKIP, REPEAT_TOGGLE, AUDIO_TOGGLE, auto-shutoff) before the
\* cooldown deadline that turning it on set.
C38_OneChangePerCooldown ==
    [][(audio_on /\ ~audio_on') => time' >= audio_cooldown_until]_vars

\* C39 as claimed: whenever audio_on is True and repeat_mode is False, an
\* auto-shutoff deadline is set, so that the periodic check_auto_shutoff()
\* turns the audio off once the deadline has passed.
C39_DeadlineWhileAudioOn ==
    (audio_on /\ ~repeat_mode) => audio_shutoff_time # None

\* --------------------------------------- the lightshow manager under threads
\* subprocess.Popen calls per behaviour.
MaxLaunches == 3

\* What start() finds of the playlist: the file exists or it does not.
Playlists == { "ok", "invalid" }

\* The method `name` called by thread t has returned value, or has raised.
Back(t, name, value, exc) ==
    /\ op' = name
    /\ arg' = [thread |-> t]
    /\ ret' = value
    /\ raised' = exc
    /\ lm_threads' = [lm_threads EXCEPT ![t] = Outside]

\* Thread t goes on inside the method `name`.
On(t, name, pc, running) ==
    /\ lm_threads' = [lm_threads EXCEPT ![t] = [pc |-> pc, op |-> name, running |-> running]]
    /\ UNCHANGED << op, arg, ret, raised >>

\* start() from `with self.lock` to time.sleep(1): refused while the state is
\* PLAYING or STARTING, ERROR for a playlist that does not exist, else the
\* subprocess is launched and the thread sleeps holding the lock.
StartLocked(t, name, launch) ==
    /\ lm_lock = 0
    /\ IF lm_state \in { "playing", "starting" }
       THEN /\ Back(t, name, Some(FALSE), FALSE)
            /\ UNCHANGED << lm_process, lm_state, lm_lock, lm_alive, lm_launched >>
       ELSE IF launch = "invalid"
       THEN /\ lm_state' = "error"
            /\ Back(t, name, Some(FALSE), FALSE)
            /\ UNCHANGED << lm_process, lm_lock, lm_alive, lm_launched >>
       ELSE /\ lm_launched < MaxLaunches
            /\ lm_state' = "starting"
            /\ lm_process' = lm_launched + 1
            /\ lm_alive' = lm_alive \cup { lm_launched + 1 }
            /\ lm_launched' = lm_launched + 1
            /\ lm_lock' = t
            /\ On(t, name, "start_sleep", FALSE)
    /\ UNCHANGED beside_lightshow

\* start(), called by thread t
StartCall(t, launch) ==
    /\ lm_threads[t].pc = "idle"
    /\ StartLocked(t, "start", launch)

\* start() after time.sleep(1): self.process.poll(), which raises
\* AttributeError, caught by except Exception, when self.process is None by
\* now.
StartSlept(t) ==
    /\ lm_threads[t].pc = "start_sleep"
    /\ LET ok == lm_process # 0 /\ lm_process \in lm_alive IN
          /\ lm_state' = IF ok THEN "playing" ELSE "error"
          /\ Back(t, lm_threads[t].op, Some(ok), FALSE)
    /\ lm_lock' = 0
    /\ UNCHANGED << lm_process, lm_alive, lm_launched, beside_lightshow >>

\* stop() from `with self.lock` to the end of self.process.wait()
StopLocked(t, name) ==
    /\ lm_threads[t].pc = "idle"
    /\ lm_lock = 0
    /\ IF lm_process = 0
       THEN /\ lm_state' = "idle"
            /\ IF name = "restart"
               THEN On(t, name, "restart_sleep", FALSE)
               ELSE Back(t, name, Some(TRUE), FALSE)
            /\ UNCHANGED << lm_process, lm_lock, lm_alive, lm_launched >>
       ELSE /\ lm_state' = "stopping"
            /\ lm_alive' = lm_alive \ { lm_process }
            /\ lm_lock' = t
            /\ On(t, name, "stop_waited", FALSE)
            /\ UNCHANGED << lm_process, lm_launched >>
    /\ UNCHANGED beside_lightshow

\* stop() after the wait: self.process = None, STOPPED
StopWaited(t) ==
    /\ lm_threads[t].pc = "stop_waited"
    /\ lm_process' = 0
    /\ lm_state' = "stopped"
    /\ lm_lock' = 0
    /\ IF lm_threads[t].op = "restart"
       THEN On(t, "restart", "restart_sleep", FALSE)
       ELSE Back(t, "stop", Some(TRUE), FALSE)
    /\ UNCHANGED << lm_alive, lm_launched, beside_lightshow >>

\* restart() after its time.sleep(1): self.start(playlist=playlist)
RestartSlept(t, launch) ==
    /\ lm_threads[t].pc = "restart_sleep"
    /\ StartLocked(t, "restart", launch)

\* is_running() returns to its caller: get_status() goes on with the value.
Answer(t, name, value) ==
    IF name = "get_status"
    THEN On(t, name, "status_ran", value)
    ELSE Back(t, name, Some(value), FALSE)

\* is_running(), called by thread t or by its get_status():
\* `if not self.process: return False`
IsRunningCalled(t, name) ==
    /\ lm_threads[t].pc = "idle"
    /\ IF lm_process = 0
       THEN Answer(t, name, FALSE)
       ELSE On(t, name, "running_read", FALSE)
    /\ UNCHANGED << lm_process, lm_state, lm_lock, lm_alive, lm_launched, beside_lightshow >>

\* poll = self.process.poll(): AttributeError when self.process is None by
\* now, True returned when the subprocess is alive.
IsRunningPolled(t) ==
    /\ lm_threads[t].pc = "running_read"
    /\ IF lm_process = 0
       THEN Back(t, lm_threads[t].op, None, TRUE)
       ELSE IF lm_process \in lm_alive
       THEN Answer(t, lm_threads[t].op, TRUE)
       ELSE On(t, lm_threads[t].op, "running_polled", FALSE)
    /\ UNCHANGED << lm_process, lm_state, lm_lock, lm_alive, lm_launched, beside_lightshow >>

\* self.process = None; PLAYING becomes IDLE; return False
IsRunningCleared(t) ==
    /\ lm_threads[t].pc = "running_polled"
    /\ lm_process' = 0
    /\ lm_state' = IF lm_state = "playing" THEN "idle" ELSE lm_state
    /\ Answer(t, lm_threads[t].op, FALSE)
    /\ UNCHANGED << lm_lock, lm_alive, lm_launched, beside_lightshow >>

\* get_status() after is_running() has returned:
\* `if not running and self.state == PLAYING: self.state = IDLE`
GetStatusRan(t) ==
    /\ lm_threads[t].pc = "status_ran"
    /\ LET state == IF ~lm_threads[t].running /\ lm_state = "playing" THEN "idle"
                    ELSE lm_state
       IN  /\ lm_state' = state
           /\ Back(t, "get_status",
                   Some([state |-> state, is_running |-> lm_threads[t].running,
                         pid |-> lm_process]),
                   FALSE)
    /\ UNCHANGED << lm_process, lm_lock, lm_alive, lm_launched, beside_lightshow >>

\* The subprocess p ends by itself.
SubprocessExits(p) ==
    /\ p \in lm_alive
    /\ lm_alive' = lm_alive \ { p }
    /\ UNCHANGED << lm_process, lm_state, lm_lock, lm_launched, lm_threads,
                    op, arg, ret, raised, beside_lightshow >>

\* A manager called from two threads while its subprocesses may end.
InitManager ==
    /\ SacnIdle
    /\ OverridesIdle
    /\ EngineIdle
    /\ ServiceIdle
    /\ PhysicalIdle
    /\ FurtherIdle

NextManager ==
    \/ \E t \in Threads, launch \in Playlists : StartCall(t, launch)
    \/ \E t \in Threads : StartSlept(t)
    \/ \E t \in Threads, name \in { "stop", "restart" } : StopLocked(t, name)
    \/ \E t \in Threads : StopWaited(t)
    \/ \E t \in Threads, launch \in Playlists : RestartSlept(t, launch)
    \/ \E t \in Threads, name \in { "is_running", "get_status" } : IsRunningCalled(t, name)
    \/ \E t \in Threads : IsRunningPolled(t)
    \/ \E t \in Threads : IsRunningCleared(t)
    \/ \E t \in Threads : GetStatusRan(t)
    \/ \E p \in 1..MaxLaunches : SubprocessExits(p)

SpecManager == InitManager /\ [][NextManager]_vars

\* C34 as claimed: the manager never has two live subprocesses, across every
\* interleaving of start, stop, restart, is_running, get_status and the exit
\* of a subprocess.
C34_OneLiveSubprocess == Cardinality(lm_alive) <= 1

\* C35 as claimed: once the subprocess has exited by itself, a start() with a
\* valid playlist launches a new subprocess and is not refused as already
\* running, whether or not is_running() or get_status() was called since.
C35_StartAfterExit ==
    [][\A t \in Threads :
          (lm_process # 0 /\ lm_alive = { } /\ StartCall(t, "ok")) =>
              lm_launched' = lm_launched + 1]_vars

\* ------------------------------------------------------------ the scheduler
\* Rows inserted into table schedule per behaviour.
MaxSchedules == 2

\* Times of day, "HH:MM" as hour and minute.
Times == { << 8, 0 >>, << 18, 30 >> }

\* days_of_week lists a request may carry.
DayLists == { << >>, << 0 >>, << 6, 1 >>, << 7 >> }

\* ScheduleCreate.validate_days, ScheduleUpdate.validate_days
ValidDays(v) == \A i \in 1..Len(v) : 0 <= v[i] /\ v[i] <= 6

\* sorted(l) of a list of integers
RECURSIVE Sorted(_)
Sorted(l) ==
    IF Len(l) = 0 THEN << >>
    ELSE LET m == CHOOSE i \in 1..Len(l) : \A j \in 1..Len(l) : l[i] <= l[j]
         IN  << l[m] >> \o Sorted([k \in 1..(Len(l) - 1) |-> IF k < m THEN l[k] ELSE l[k + 1]])

\* cron_days_str: the cron days (0 = Monday) of the stored days (0 = Sunday),
\* sorted, as the expressions that ','.join() puts between the commas.
CronDays(days_of_week) ==
    Sorted([i \in 1..Len(days_of_week) |->
               IF days_of_week[i] > 0 THEN (days_of_week[i] - 1) % 7 ELSE 6])

\* CronTrigger(day_of_week=','.join(...)) raises ValueError for the empty
\* string, which holds no expression.
CronTriggerRaises(cron_days) == Len(cron_days) = 0

\* f"schedule_{schedule_id}_start", f"schedule_{schedule_id}_stop"
JobId(schedule_id, which) == << "schedule", schedule_id, which >>

\* _create_schedule_jobs(schedule): the start trigger is built before any job
\* is added.
CreateScheduleJobs(jobs, schedule) ==
    IF CronTriggerRaises(CronDays(schedule.days_of_week))
    THEN [jobs |-> jobs, raised |-> TRUE]
    ELSE [jobs |-> jobs \cup { JobId(schedule.id, "start"), JobId(schedule.id, "stop") },
          raised |-> FALSE]

\* "HH:MM" strings compare as the times they name.
Minutes(t) == t[1] * 60 + t[2]

\* get_schedules(enabled_only): the rows ORDER BY start_time, rows of one
\* start time in the order of their ids.
RECURSIVE GetSchedules(_, _)
GetSchedules(table, enabled_only) ==
    LET rows == { r \in table : ~enabled_only \/ r.enabled } IN
    IF rows = { } THEN << >>
    ELSE LET first == CHOOSE r \in rows : \A q \in rows :
                          \/ Minutes(r.start_time) < Minutes(q.start_time)
                          \/ Minutes(r.start_time) = Minutes(q.start_time) /\ r.id <= q.id
         IN  << first >> \o GetSchedules(rows \ { first }, FALSE)

\* for schedule in schedules: self._create_schedule_jobs(schedule), left at
\* the first one that raises.
RECURSIVE CreateAll(_, _)
CreateAll(jobs, schedules) ==
    IF Len(schedules) = 0 THEN [jobs |-> jobs, raised |-> FALSE]
    ELSE LET one == CreateScheduleJobs(jobs, schedules[1]) IN
         IF one.raised THEN one ELSE CreateAll(one.jobs, Tail(schedules))

\* reload_schedules(): remove_all_jobs(), then the jobs of the enabled rows
ReloadSchedules(table) == CreateAll({ }, GetSchedules(table, TRUE))

\* A method of the scheduler service has run.
Scheduled(name, argument, value, exc, table, last, jobs) ==
    /\ op' = name
    /\ arg' = argument
    /\ ret' = value
    /\ raised' = exc
    /\ schedule_table' = table
    /\ lastrowid' = last
    /\ scheduler_jobs' = jobs
    /\ UNCHANGED << lightshow, beside_scheduler >>

\* create_schedule(start_time, stop_time, days_of_week, mode, enabled), as
\* the route calls it with a validated request
CreateSchedule(start_time, days_of_week, on) ==
    /\ lastrowid < MaxSchedules
    /\ ValidDays(days_of_week)
    /\ LET schedule_id == lastrowid + 1
           table == schedule_table \cup
                      { [id |-> schedule_id, start_time |-> start_time,
                         stop_time |-> << 22, 0 >>, mode |-> "playlist",
                         enabled |-> on, days_of_week |-> days_of_week] }
           loaded == IF on THEN ReloadSchedules(table)
                     ELSE [jobs |-> scheduler_jobs, raised |-> FALSE]
       IN  Scheduled("create_schedule", [days_of_week |-> days_of_week, enabled |-> on],
                     IF loaded.raised THEN None ELSE Some(schedule_id),
                     loaded.raised, table, schedule_id, loaded.jobs)

\* update_schedule(schedule_id, days_of_week=..., enabled=...)
UpdateSchedule(schedule_id, days_of_week, on) ==
    /\ IF days_of_week = None THEN TRUE ELSE ValidDays(days_of_week.v)
    /\ IF \A r \in schedule_table : r.id # schedule_id
       THEN Scheduled("update_schedule", [id |-> schedule_id], Some(FALSE), FALSE,
                      schedule_table, lastrowid, scheduler_jobs)
       ELSE LET table == { IF r.id # schedule_id THEN r
                           ELSE [r EXCEPT
                                   !.days_of_week = IF days_of_week = None THEN @
                                                    ELSE days_of_week.v,
                                   !.enabled = IF on = None THEN @ ELSE on.v] :
                           r \in schedule_table }
                loaded == ReloadSchedules(table)
            IN  Scheduled("update_schedule", [id |-> schedule_id],
                          IF loaded.raised THEN None ELSE Some(TRUE),
                          loaded.raised, table, lastrowid, loaded.jobs)

\* delete_schedule(schedule_id)
DeleteSchedule(schedule_id) ==
    IF \A r \in schedule_table : r.id # schedule_id
    THEN Scheduled("delete_schedule", [id |-> schedule_id], Some(FALSE), FALSE,
                   schedule_table, lastrowid, scheduler_jobs)
    ELSE LET table == { r \in schedule_table : r.id # schedule_id }
             loaded == ReloadSchedules(table)
         IN  Scheduled("delete_schedule", [id |-> schedule_id],
                       IF loaded.raised THEN None ELSE Some(TRUE),
                       loaded.raised, table, lastrowid, loaded.jobs)

\* reload_schedules()
ReloadSchedulesCall ==
    LET loaded == ReloadSchedules(schedule_table) IN
    Scheduled("reload_schedules", << >>, None, loaded.raised,
              schedule_table, lastrowid, loaded.jobs)

\* The keyword arguments _start_lightshow passes to LightshowManager.start,
\* and the parameters start() has.
StartKeywords == { "mode" }

StartParameters == { "playlist", "song" }

\* The start job of a schedule fires: _start_lightshow(mode) in a thread of
\* the scheduler. A keyword start() does not have raises TypeError before
\* start() runs, and except Exception logs it.
StartLightshow(schedule_id, launch) ==
    /\ JobId(schedule_id, "start") \in scheduler_jobs
    /\ lm_threads[1].pc = "idle"
    /\ IF StartKeywords \subseteq StartParameters
       THEN StartLocked(1, "start", launch)
       ELSE /\ op' = "_start_lightshow"
            /\ arg' = [thread |-> 1]
            /\ ret' = None
            /\ raised' = FALSE
            /\ UNCHANGED << lightshow, beside_lightshow >>

\* The stop job of a schedule fires: _stop_lightshow()
StopLightshow(schedule_id) ==
    /\ JobId(schedule_id, "stop") \in scheduler_jobs
    /\ StopLocked(1, "stop")

\* A scheduler on an empty table whose schedules are created, updated and
\* deleted through the API and whose jobs fire in thread 1, beside a
\* lightshow manager the API starts in thread 2.
InitScheduler ==
    /\ SacnIdle
    /\ OverridesIdle
    /\ EngineIdle
    /\ ServiceIdle
    /\ PhysicalIdle
    /\ FurtherIdle

NextScheduler ==
    \/ \E start_time \in Times, days_of_week \in DayLists, on \in BOOLEAN :
          CreateSchedule(start_time, days_of_week, on)
    \/ \E schedule_id \in 1..MaxSchedules, days_of_week \in { None } \cup { Some(d) : d \in DayLists },
          on \in { None, Some(TRUE), Some(FALSE) } :
          UpdateSchedule(schedule_id, days_of_week, on)
    \/ \E schedule_id \in 1..MaxSchedules : DeleteSchedule(schedule_id)
    \/ ReloadSchedulesCall
    \/ \E schedule_id \in 1..MaxSchedules, launch \in Playlists :
          StartLightshow(schedule_id, launch)
    \/ \E schedule_id \in 1..MaxSchedules : StopLightshow(schedule_id)
    \/ StopWaited(1)
    \/ \E launch \in Playlists : StartCall(2, launch)
    \/ StartSlept(2)
    \/ \E p \in 1..MaxLaunches : SubprocessExits(p)

SpecScheduler == InitScheduler /\ [][NextScheduler]_vars

\* C32 as claimed: when the start job of an enabled schedule fires while no
\* lightshow is running and the playlist is valid, the manager launches the
\* lightshow.
C32_StartJobStarts ==
    [][\A schedule_id \in 1..MaxSchedules :
          (lm_process = 0 /\ lm_alive = { } /\ lm_lock = 0
           /\ StartLightshow(schedule_id, "ok")) =>
              lm_launched' = lm_launched + 1]_vars

\* The jobs of the enabled rows of a table.
JobsOf(table) ==
    { JobId(r.id, which) : r \in { q \in table : q.enabled }, which \in { "start", "stop" } }

\* C33 as claimed: after every create_schedule, update_schedule,
\* delete_schedule and reload_schedules, returned or raised, the scheduler
\* holds the start and the stop job of every enabled row of the table and
\* no other job.
C33_JobsMatchTable == scheduler_jobs = JobsOf(schedule_table)

\* ---------------------------------------------------------- the GPIO adapter
\* _WIRINGPI_TO_BCM
WiringPiToBcm ==
    [p \in (0..16) \cup (21..29) |->
        IF p <= 16
        THEN << 17, 18, 27, 22, 23, 24, 25, 4, 2, 3, 8, 7, 10, 9, 11, 14, 15 >>[p + 1]
        ELSE << 5, 6, 13, 19, 26, 12, 16, 20, 21 >>[p - 20]]

\* The first pin number of the expanders.
ExpanderBase == 65

\* _translate_pin(pin) under the numbering `numbering`
TranslatePin(pin, numbering) ==
    IF pin >= ExpanderBase THEN pin
    ELSE IF numbering = "wiringpi" /\ pin \in DOMAIN WiringPiToBcm THEN WiringPiToBcm[pin]
    ELSE pin

\* _pwm_frequency
PwmFrequency == 100

\* A duty cycle in percent, as a fraction.
Percent(value, range) == << value * 100, range >>

\* max(0, min(100, duty_cycle))
Clamped(duty) ==
    IF duty[1] < 0 THEN << 0, 1 >>
    ELSE IF duty[1] > 100 * duty[2] THEN << 100, 1 >>
    ELSE duty

\* lgpio.tx_pwm(handle, pin, frequency, duty_cycle)
TxPwm(handle, pin, frequency, duty) ==
    [f |-> "tx_pwm", handle |-> handle, pin |-> pin, frequency |-> frequency, duty |-> duty]

\* lgpio calls with a handle and a pin, and a level for gpio_write
Lgpio(f, handle, pin) == [f |-> f, handle |-> handle, pin |-> pin]

\* A function of the adapter has run: what it returned, whether it raised,
\* what it left in the globals and which lgpio functions it called.
Adapted(name, argument, value, exc, handle, numbering, pwm, registered, called) ==
    /\ op' = name
    /\ arg' = argument
    /\ ret' = value
    /\ raised' = exc
    /\ chip_handle' = handle
    /\ pin_mode' = numbering
    /\ pwm_pins' = pwm
    /\ expanders' = registered
    /\ lgpio_calls' = called
    /\ UNCHANGED beside_adapter

\* A function that returns without touching the globals.
Passed(name, argument, value, called) ==
    Adapted(name, argument, value, FALSE, chip_handle, pin_mode, pwm_pins, expanders, called)

\* wiringPiSetupPY() and wiringPiSetupGpio(): lgpio.gpiochip_open(0) returns
\* a handle, or raises and the exception is raised on.
WiringPiSetup(name, fails) ==
    LET called == << [f |-> "gpiochip_open", chip |-> 0] >> IN
    IF fails
    THEN Adapted(name, << >>, None, TRUE, chip_handle, pin_mode, pwm_pins, expanders, called)
    ELSE Adapted(name, << >>, None, FALSE, Some(0),
                 IF name = "wiringPiSetupPY" THEN "wiringpi" ELSE "bcm",
                 pwm_pins, expanders, called)

\* pinModePY(pin, mode)
PinModePY(pin, mode, fails) ==
    LET bcm_pin == TranslatePin(pin, pin_mode) IN
    IF chip_handle = None THEN Passed("pinModePY", << pin, mode >>, None, << >>)
    ELSE IF pin >= ExpanderBase THEN Passed("pinModePY", << pin, mode >>, None, << >>)
    ELSE IF mode = 0
    THEN Passed("pinModePY", << pin, mode >>, None,
                << Lgpio("gpio_claim_input", chip_handle.v, bcm_pin) >>)
    ELSE IF mode = 1
    THEN Passed("pinModePY", << pin, mode >>, None,
                << Lgpio("gpio_claim_output", chip_handle.v, bcm_pin) >>)
    ELSE Passed("pinModePY", << pin, mode >>, None, << >>)

\* What softPwmCreatePY(pin, initial_value, pwm_range) returns, leaves in
\* _pwm_pins and calls, on an initialised adapter; with fails, the lgpio
\* calls raise.
SoftPwmCreate(pin, initial_value, pwm_range, fails) ==
    LET bcm_pin == TranslatePin(pin, pin_mode) IN
    IF pin >= ExpanderBase THEN [ret |-> None, pwm |-> pwm_pins, called |-> << >>]
    ELSE IF fails
    THEN [ret |-> None, pwm |-> pwm_pins,
          called |-> << Lgpio("gpio_claim_output", chip_handle.v, bcm_pin) >>]
    ELSE [ret |-> Some(0),
          pwm |-> Put(pwm_pins, bcm_pin,
                      [range |-> pwm_range, frequency |-> PwmFrequency, wiringpi_pin |-> pin]),
          called |-> << Lgpio("gpio_claim_output", chip_handle.v, bcm_pin),
                        TxPwm(chip_handle.v, bcm_pin, PwmFrequency,
                              IF pwm_range > 0 THEN Percent(initial_value, pwm_range)
                              ELSE << 0, 1 >>) >>]

\* softPwmCreatePY(pin, initial_value, pwm_range)
SoftPwmCreatePY(pin, initial_value, pwm_range, fails) ==
    IF chip_handle = None
    THEN Passed("softPwmCreatePY", << pin, initial_value, pwm_range >>, None, << >>)
    ELSE LET made == SoftPwmCreate(pin, initial_value, pwm_range, fails) IN
         Adapted("softPwmCreatePY", << pin, initial_value, pwm_range >>, made.ret, FALSE,
                 chip_handle, pin_mode, made.pwm, expanders, made.called)

\* softPwmWritePY(pin, value): a pin that is not tracked is created with
\* range 100 first; the KeyError of a pin that could not be created is caught.
SoftPwmWritePY(pin, value, fails) ==
    LET bcm_pin == TranslatePin(pin, pin_mode) IN
    IF chip_handle = None THEN Passed("softPwmWritePY", << pin, value >>, None, << >>)
    ELSE IF pin >= ExpanderBase THEN Passed("softPwmWritePY", << pin, value >>, None, << >>)
    ELSE LET made == IF bcm_pin \in DOMAIN pwm_pins
                     THEN [ret |-> None, pwm |-> pwm_pins, called |-> << >>]
                     ELSE SoftPwmCreate(pin, 0, 100, fails)
         IN  IF bcm_pin \notin DOMAIN made.pwm
             THEN Adapted("softPwmWritePY", << pin, value >>, None, FALSE,
                          chip_handle, pin_mode, made.pwm, expanders, made.called)
             ELSE LET pwm_range == made.pwm[bcm_pin].range
                      duty == IF pwm_range > 0 THEN Clamped(Percent(value, pwm_range))
                              ELSE << 0, 1 >>
                  IN  Adapted("softPwmWritePY", << pin, value >>, None, FALSE,
                              chip_handle, pin_mode, made.pwm, expanders,
                              made.called \o
                                << TxPwm(chip_handle.v, bcm_pin,
                                         made.pwm[bcm_pin].frequency, duty) >>)

\* del _pwm_pins[bcm_pin]
Without(d, key) == [x \in DOMAIN d \ { key } |-> d[x]]

\* softPwmStopPY(pin)
SoftPwmStopPY(pin, fails) ==
    LET bcm_pin == TranslatePin(pin, pin_mode) IN
    IF chip_handle = None THEN Passed("softPwmStopPY", << pin >>, None, << >>)
    ELSE IF pin >= ExpanderBase THEN Passed("softPwmStopPY", << pin >>, None, << >>)
    ELSE Adapted("softPwmStopPY", << pin >>, None, FALSE, chip_handle, pin_mode,
                 IF fails THEN pwm_pins ELSE Without(pwm_pins, bcm_pin), expanders,
                 << TxPwm(chip_handle.v, bcm_pin, 0, << 0, 1 >>) >>)

\* digitalWritePY(pin, value)
DigitalWritePY(pin, value, fails) ==
    IF chip_handle = None THEN Passed("digitalWritePY", << pin, value >>, None, << >>)
    ELSE IF pin >= ExpanderBase THEN Passed("digitalWritePY", << pin, value >>, None, << >>)
    ELSE Passed("digitalWritePY", << pin, value >>, None,
                << [f |-> "gpio_write", handle |-> chip_handle.v,
                    pin |-> TranslatePin(pin, pin_mode),
                    level |-> IF value # 0 THEN 1 ELSE 0] >>)

\* digitalReadPY(pin) of a pin at `level`
DigitalReadPY(pin, level, fails) ==
    IF chip_handle = None THEN Passed("digitalReadPY", << pin >>, Some(0), << >>)
    ELSE IF pin >= ExpanderBase THEN Passed("digitalReadPY", << pin >>, Some(0), << >>)
    ELSE Passed("digitalReadPY", << pin >>, IF fails THEN Some(0) ELSE Some(level),
                << Lgpio("gpio_read", chip_handle.v, TranslatePin(pin, pin_mode)) >>)

\* analogWritePY(pin, value)
AnalogWritePY(pin, value, fails) ==
    IF chip_handle = None THEN Passed("analogWritePY", << pin, value >>, None, << >>)
    ELSE IF pin >= ExpanderBase THEN Passed("analogWritePY", << pin, value >>, None, << >>)
    ELSE Passed("analogWritePY", << pin, value >>, None,
                << TxPwm(chip_handle.v, TranslatePin(pin, pin_mode), PwmFrequency,
                         Clamped(Percent(value, 255))) >>)

\* The setup functions of the expanders and what each returns.
ExpanderSetups ==
    [mcp23008SetupPY |-> None, mcp23017SetupPY |-> Some(-1), mcp23016SetupPY |-> None,
     mcp23s08SetupPY |-> None, mcp23s17SetupPY |-> Some(-1), sr595SetupPY |-> None,
     pcf8574SetupPY |-> None]

\* mcp23008SetupPY(pinBase, ...) and the like: _expanders[pinBase] = {...}
ExpanderSetup(name, pinBase) ==
    Adapted(name, << pinBase >>, ExpanderSetups[name], FALSE, chip_handle, pin_mode,
            pwm_pins, expanders \cup { pinBase }, << >>)

\* The tracked pins, in the order of the dict's keys.
RECURSIVE Keys(_)
Keys(d) ==
    IF DOMAIN d = { } THEN << >>
    ELSE LET k == CHOOSE x \in DOMAIN d : \A y \in DOMAIN d : x <= y
         IN  << k >> \o Keys(Without(d, k))

\* cleanup(): with a chip handle, PWM stopped on every tracked pin, the chip
\* closed, and the globals cleared in `finally`; without one, nothing.
Cleanup(fails) ==
    IF chip_handle = None THEN Passed("cleanup", << >>, None, << >>)
    ELSE Adapted("cleanup", << >>, None, FALSE, None, pin_mode, EmptyDict, { },
                 [i \in 1..Len(Keys(pwm_pins)) |->
                     TxPwm(chip_handle.v, Keys(pwm_pins)[i], 0, << 0, 1 >>)]
                 \o << [f |-> "gpiochip_close", handle |-> chip_handle.v] >>)

\* Pin numbers: wiringPi pin 1 is BCM 18, 18 is no wiringPi pin, 65 is the
\* first pin of an expander.
Pins == { 1, 18, 65 }

\* The functions that need the chip.
ChipFunctions ==
    { "pinModePY", "softPwmCreatePY", "softPwmWritePY", "softPwmStopPY",
      "digitalWritePY", "digitalReadPY", "analogWritePY" }

\* The adapter as imported; the chip is opened, pins are driven, expanders
\* registered and the adapter cleaned up in any order, on hardware that may
\* fail.
InitAdapter ==
    /\ SacnIdle
    /\ OverridesIdle
    /\ EngineIdle
    /\ ServiceIdle
    /\ PhysicalIdle
    /\ FurtherIdle

NextAdapter ==
    \/ \E name \in { "wiringPiSetupPY", "wiringPiSetupGpio" }, fails \in BOOLEAN :
          WiringPiSetup(name, fails)
    \/ \E pin \in Pins, mode \in 0..2, fails \in BOOLEAN : PinModePY(pin, mode, fails)
    \/ \E pin \in Pins, initial_value \in { 0, 50 }, pwm_range \in { 0, 100 },
          fails \in BOOLEAN : SoftPwmCreatePY(pin, initial_value, pwm_range, fails)
    \/ \E pin \in Pins, value \in { 50, 200 }, fails \in BOOLEAN :
          SoftPwmWritePY(pin, value, fails)
    \/ \E pin \in Pins, fails \in BOOLEAN : SoftPwmStopPY(pin, fails)
    \/ \E pin \in Pins, value \in 0..1, fails \in BOOLEAN : DigitalWritePY(pin, value, fails)
    \/ \E pin \in Pins, level \in 0..1, fails \in BOOLEAN : DigitalReadPY(pin, level, fails)
    \/ \E pin \in Pins, value \in { 0, 128, 300 }, fails \in BOOLEAN :
          AnalogWritePY(pin, value, fails)
    \/ \E name \in DOMAIN ExpanderSetups, pinBase \in { 65, 100 } : ExpanderSetup(name, pinBase)
    \/ \E fails \in BOOLEAN : Cleanup(fails)

SpecAdapter == InitAdapter /\ [][NextAdapter]_vars

\* C31 as claimed: while the adapter has no chip handle, pinModePY,
\* softPwmCreatePY, softPwmWritePY, softPwmStopPY, digitalWritePY,
\* digitalReadPY and analogWritePY call no lgpio function, raise nothing and
\* leave the tracked PWM pins alone, and digitalReadPY returns 0; and
\* cleanup() always leaves no chip handle, no tracked PWM pin and no
\* registered expander.
C31_UninitializedAndCleanup ==
    [][/\ (chip_handle = None /\ op' \in ChipFunctions) =>
             /\ lgpio_calls' = << >>
             /\ ~raised'
             /\ pwm_pins' = pwm_pins
             /\ op' = "digitalReadPY" => ret' = Some(0)
       /\ op' = "cleanup" =>
             /\ chip_handle' = None
             /\ pwm_pins' = EmptyDict
             /\ expanders' = { }]_vars

====
